---- MODULE Spec2Model ----
(***************************************************************************)
(* Admission control and the worker pool of snakehook-runner:              *)
(*   core/policy.py       normalize_package_name, is_denied_package        *)
(*   core/rate_limit.py   FixedWindowRateLimiter                           *)
(*   core/concurrency.py  WorkerPool (asyncio.Queue + worker tasks)        *)
(*   core/service.py      SubmissionService.submit                         *)
(*   core/orchestrator.py WorkerHandler, TriageOrchestrator.execute,       *)
(*                        _collect_audit_highlights, audit merge, cleanup  *)
(*   core/auth.py         is_valid_bearer                                  *)
(*   api/routes.py        triage (POST /v1/triage)                         *)
(*   infra/compression.py gzip_file                                        *)
(*   infra/webhook_client.py DiscordWebhookClient.send_summary             *)
(*   infra/process_runner.py AsyncProcessRunner.run                        *)
(*   infra/pip_installer.py, infra/nsjail_executor.py,                     *)
(*   infra/runtime_paths.py  install target and audit paths of a job       *)
(* Strings are tuples of one-character strings so that the normalisation   *)
(* is computed character by character.                                     *)
(***************************************************************************)
EXTENDS Integers, Sequences, FiniteSets, TLC

\* ---------------------------------------------------------------- settings
\* Settings.max_concurrency as read from MAX_CONCURRENCY (default 2)
MAX_CONCURRENCY == 2
\* Settings.queue_limit as read from QUEUE_LIMIT (>= 1), scaled down
QUEUE_LIMIT == 2
\* Settings.per_ip_rate_limit (PER_IP_RATE_LIMIT >= 1), scaled down
per_ip_rate_limit == 2
\* Settings.per_ip_rate_window_sec (PER_IP_RATE_WINDOW_SEC >= 1), scaled down
per_ip_rate_window_sec == 2
\* number of SubmissionService.submit calls explored
MaxSubmits == 3
\* the monotonic clock runs from 0 to MaxTime
MaxTime == 2
\* how often WorkerPool.start() may (re)create the workers
MaxStarts == 1
\* HIGHLIGHT_MAX_ITEMS (200 in the source), scaled down
HIGHLIGHT_MAX_ITEMS == 2
\* number of audit records a highlight collection reads
MaxAuditLines == 4
\* test_fixed_window_rate_limiter: FixedWindowRateLimiter(limit=2, window_sec=10)
TEST_LIMIT == 2
TEST_WINDOW_SEC == 10
\* test_fixed_window_rate_limiter: the time of its first call
TEST_T0 == 100
\* number of allow() calls made on the limiter under test
MaxAllowCalls == 4
\* longest attachment_paths tuple handed to send_summary
MaxAttachments == 2
\* number of POST /v1/triage requests explored
MaxRequests == 1

\* ---------------------------------------------------------------- strings
Upper == <<"A","B","C","D","E","F","G","H","I","J","K","L","M",
           "N","O","P","Q","R","S","T","U","V","W","X","Y","Z">>
LowerAlpha == <<"a","b","c","d","e","f","g","h","i","j","k","l","m",
                "n","o","p","q","r","s","t","u","v","w","x","y","z">>

\* str.lower() on one character
LowerChar(c) ==
    IF \E i \in DOMAIN Upper : Upper[i] = c
    THEN LowerAlpha[CHOOSE i \in DOMAIN Upper : Upper[i] = c]
    ELSE c

\* str.lower()
Lower(s) == [i \in DOMAIN s |-> LowerChar(s[i])]

IsSpace(c) == c \in {" ", "\t", "\n"}

RECURSIVE LStrip(_)
LStrip(s) == IF s # <<>> /\ IsSpace(Head(s)) THEN LStrip(Tail(s)) ELSE s

RECURSIVE RStrip(_)
RStrip(s) ==
    IF s # <<>> /\ IsSpace(s[Len(s)]) THEN RStrip(SubSeq(s, 1, Len(s) - 1)) ELSE s

\* str.strip()
Strip(s) == RStrip(LStrip(s))

\* the character class [-_.] of _NORMALIZE_SEPARATORS
IsSeparator(c) == c \in {"-", "_", "."}

RECURSIVE DropSeparators(_)
DropSeparators(s) ==
    IF s # <<>> /\ IsSeparator(Head(s)) THEN DropSeparators(Tail(s)) ELSE s

\* _NORMALIZE_SEPARATORS.sub("-", s): every maximal run of [-_.] becomes one "-"
RECURSIVE SubSeparators(_)
SubSeparators(s) ==
    IF s = <<>> THEN <<>>
    ELSE IF IsSeparator(Head(s))
         THEN <<"-">> \o SubSeparators(DropSeparators(Tail(s)))
         ELSE <<Head(s)>> \o SubSeparators(Tail(s))

\* str.startswith
StartsWith(s, prefix) ==
    /\ Len(prefix) <= Len(s)
    /\ SubSeq(s, 1, Len(prefix)) = prefix

\* ---------------------------------------------------------------- policy.py
normalize_package_name(package_name) == SubSeparators(Lower(Strip(package_name)))

\* a denylist test that compares the raw name
is_denied_package_Raw(package_name, denylist) ==
    \E i \in DOMAIN denylist :
        LET blocked == normalize_package_name(denylist[i])
        IN  package_name = blocked \/ StartsWith(package_name, blocked \o <<"-">>)

is_denied_package(package_name, denylist) ==
    LET candidate == normalize_package_name(package_name)
    IN  \E i \in DOMAIN denylist :
            LET blocked == normalize_package_name(denylist[i])
            IN  candidate = blocked \/ StartsWith(candidate, blocked \o <<"-">>)

\* ---------------------------------------------------------------- inputs
torch == <<"t","o","r","c","h">>
tensorflow == <<"t","e","n","s","o","r","f","l","o","w">>
jaxlib == <<"j","a","x","l","i","b">>

\* Settings.package_denylist, the default of PACKAGE_DENYLIST
package_denylist == <<torch, tensorflow, jaxlib>>

\* package names a request may carry
PackageNames ==
    { torch,                                          \* "torch"
      <<"T","o","r","c","h","_","C","P","U">>,         \* "Torch_CPU"
      torch \o <<".","-","_","c","p","u">>,            \* "torch.-_cpu"
      torch \o <<"_">>,                                \* "torch_"
      <<" ">> \o torch \o <<" ">>,                     \* " torch "
      torch \o <<"s","e","r","v","e">>,                \* "torchserve"
      <<"r","e","q","u","e","s","t","s">> }            \* "requests"

\* the package a pool run submits: accepted by the denylist
PoolPackage == torch \o <<"s","e","r","v","e">>

\* is_denied_package(package_name, self._package_denylist) of submit, tabulated
\* over the names a request may carry
DenylistVerdict ==
    [p \in PackageNames |-> is_denied_package(p, package_denylist)]

\* request.client.host
ClientIps == {"1.2.3.4", "5.6.7.8"}

\* ---------------------------------------------------------------- state
VARIABLES
    handlerKind,  \* WorkerPool._handler: "callable" (any coroutine function),
                  \* "WorkerHandler", or "gate" (a handler that awaits an asyncio.Event)
    settings,     \* the max_concurrency and queue_limit the WorkerPool was built with
    gate,         \* the asyncio.Event a "gate" handler waits on: set or not
    noopCalls,    \* history: which of "start", "stop" has been called with nothing to do
    started,      \* WorkerPool._started
    queue,        \* WorkerPool._queue: the items of the asyncio.Queue, head first
    unfinished,   \* asyncio.Queue._unfinished_tasks
    workers,      \* WorkerPool._workers: task index -> [state, job]
    stopPc,       \* position of a running stop(): "idle", "put", "gather"
    stopLeft,     \* sentinels stop() has still to put
    waitPc,       \* position of the wait_idle() caller: "none", "waiting", "woken", "returned"
    starts,       \* number of times start() created workers
    rl_state,     \* FixedWindowRateLimiter._state: key -> [window_start, count]
    now,          \* time.monotonic()
    next_uuid,    \* the next value uuid.uuid4() yields
    nsub,         \* number of SubmissionService.submit calls so far
    last,         \* the last submit call and its SubmitResult
    allowedAt,    \* history: key -> the allowed calls, each [ts, window_start]
    accepted,     \* history: run_ids answered ACCEPTED
    invoked,      \* history: run_id -> number of handler invocations
    order,        \* history: the run_ids in the order their handler invocations began
    raisedIds,    \* history: run_ids whose handler work raised
    logged,       \* history: run_ids logged by WorkerHandler's LOG.exception
    stage_lines,  \* _collect_audit_highlights: the audit records of its stage_paths,
                  \* each [stage, record], install files first
    line_no,      \* _collect_audit_highlights: index of the next record to read
                  \* (0: no collection running)
    highlights,   \* _collect_audit_highlights: its four dicts and event_counts
    ex,           \* TriageOrchestrator.execute: its position and its locals
    fs,           \* the files under /tmp: path -> content
    sent,         \* history: the send_summary calls, each [run_id, attachment_paths, files]
    sandbox_calls,\* history: number of sandbox_executor.run calls
    lim,          \* a FixedWindowRateLimiter called on its own: _limit, _window_sec, _state
    lim_calls,    \* history: its allow(key, now) calls, each with _state before and after
    http,         \* the last POST /v1/triage: its number, the request and the response
    wh,           \* DiscordWebhookClient.send_summary: its position and its locals
    pa,           \* _parse_audit_record called on a line and on the line as
                  \* _merge_audit_logs writes it
    pr,           \* AsyncProcessRunner.run: its position, the child process, the
                  \* pipes its two readers drain and the ProcessResult
    cj,           \* the execute(job) calls the workers run side by side: worker
                  \* -> its position and its locals
    site,         \* the directories under JAIL_SITE_ROOT: name -> what is installed
    tmp           \* the files under /tmp the side-by-side runs share: path -> content

\* what construction fixes for the life of the pool
setupVars == <<handlerKind, settings>>
poolVars == <<started, queue, unfinished, workers, stopPc, stopLeft, starts>>
limiterVars == <<rl_state, allowedAt>>
serviceVars == <<next_uuid, nsub, last, accepted>>
handlerVars == <<invoked, order, raisedIds, logged>>
highlightVars == <<stage_lines, line_no, highlights>>
orchVars == <<ex, fs, sent, sandbox_calls>>
\* what is called from outside the pool: the limiter under test, the HTTP
\* route, the webhook client
callerVars == <<lim, lim_calls, http, wh>>
\* the parts below the orchestrator, each exercised on its own
concurrentVars == <<cj, site, tmp>>
infraVars == <<pa, pr, concurrentVars>>
vars == <<setupVars, infraVars, callerVars, orchVars, highlightVars, gate, noopCalls, poolVars, waitPc, limiterVars, now, serviceVars, handlerVars>>

\* None: the stop sentinel in the queue, the missing run_id of a SubmitResult
None == [run_id |-> 0, package_name |-> <<>>]
NoRunId == 0

RunIds == 1..MaxSubmits

\* WorkerPool.__init__: self._max_concurrency
max_concurrency == settings.max_concurrency
\* WorkerPool.__init__: asyncio.Queue(maxsize=queue_limit)
queue_limit == settings.queue_limit

\* file_path, entrypoint or module_name that is None
NoTarget == ""

\* RunJob(run_id=..., package_name=..., version=...): mode and the targets take
\* the dataclass defaults; the version is carried through unread
RunJob(run_id, package_name) ==
    [run_id |-> run_id, package_name |-> package_name, mode |-> "install",
     file_path |-> NoTarget, entrypoint |-> NoTarget, module_name |-> NoTarget]

\* ---------------------------------------------------------------- rate_limit.py
\* self._state[key] = value
SetKey(state, key, value) ==
    [k \in DOMAIN state \cup {key} |-> IF k = key THEN value ELSE state[k]]

\* a limiter whose count test is off by one
RateLimiterAllow_OffByOne(state, key, ts) ==
    IF key \notin DOMAIN state \/ ts - state[key].window_start >= per_ip_rate_window_sec
    THEN [ok |-> TRUE, state |-> SetKey(state, key, [window_start |-> ts, count |-> 1])]
    ELSE IF state[key].count > per_ip_rate_limit
         THEN [ok |-> FALSE, state |-> state]
         ELSE [ok |-> TRUE,
               state |-> SetKey(state, key, [window_start |-> state[key].window_start,
                                             count |-> state[key].count + 1])]

\* FixedWindowRateLimiter.allow(key, now=ts): the answer and the new _state
RateLimiterAllow(state, key, ts) ==
    IF key \notin DOMAIN state \/ ts - state[key].window_start >= per_ip_rate_window_sec
    THEN [ok |-> TRUE, state |-> SetKey(state, key, [window_start |-> ts, count |-> 1])]
    ELSE IF state[key].count >= per_ip_rate_limit
         THEN [ok |-> FALSE, state |-> state]
         ELSE [ok |-> TRUE,
               state |-> SetKey(state, key, [window_start |-> state[key].window_start,
                                             count |-> state[key].count + 1])]

\* history of the allowed calls of a key
RecordAllow(hist, key, ts, res) ==
    IF res.ok
    THEN [hist EXCEPT ![key] =
            Append(@, [ts |-> ts, window_start |-> res.state[key].window_start])]
    ELSE hist

\* a limiter that lets one call more into a window
FixedWindowRateLimiter_allow_OffByOne(self, key, ts) ==
    IF key \notin DOMAIN self.state \/ ts - self.state[key].window_start >= self.window_sec
    THEN [ok |-> TRUE, state |-> SetKey(self.state, key, [window_start |-> ts, count |-> 1])]
    ELSE IF self.state[key].count > self.limit
         THEN [ok |-> FALSE, state |-> self.state]
         ELSE [ok |-> TRUE,
               state |-> SetKey(self.state, key,
                                [window_start |-> self.state[key].window_start,
                                 count |-> self.state[key].count + 1])]

\* an allow that counts the calls it rejects
FixedWindowRateLimiter_allow_CountRejected(self, key, ts) ==
    IF key \notin DOMAIN self.state \/ ts - self.state[key].window_start >= self.window_sec
    THEN [ok |-> TRUE, state |-> SetKey(self.state, key, [window_start |-> ts, count |-> 1])]
    ELSE [ok |-> self.state[key].count < self.limit,
          state |-> SetKey(self.state, key,
                           [window_start |-> self.state[key].window_start,
                            count |-> self.state[key].count + 1])]

\* FixedWindowRateLimiter.allow(key, now=ts) on a limiter built with any limit
\* and window_sec: the answer and the new _state
FixedWindowRateLimiter_allow(self, key, ts) ==
    IF key \notin DOMAIN self.state \/ ts - self.state[key].window_start >= self.window_sec
    THEN [ok |-> TRUE, state |-> SetKey(self.state, key, [window_start |-> ts, count |-> 1])]
    ELSE IF self.state[key].count >= self.limit
         THEN [ok |-> FALSE, state |-> self.state]
         ELSE [ok |-> TRUE,
               state |-> SetKey(self.state, key,
                                [window_start |-> self.state[key].window_start,
                                 count |-> self.state[key].count + 1])]

\* the `now` values handed to the limiter under test: the test's first call
\* up to one second past the end of its window
Timestamps == TEST_T0..(TEST_T0 + TEST_WINDOW_SEC + 1)

\* ---------------------------------------------------------------- concurrency.py
\* range(self._max_concurrency) of start() with one worker too many
SpawnedWorkers_OneMore == 1..(max_concurrency + 1)

\* range(self._max_concurrency) of start()
SpawnedWorkers == 1..max_concurrency

\* a start() that creates its workers again on a started pool
PoolStart_Respawn(isStarted, ws) ==
    [started |-> TRUE,
     workers |-> [w \in SpawnedWorkers |-> [state |-> "waiting", job |-> None]]]

\* WorkerPool.start(): _started and _workers after the call
PoolStart(isStarted, ws) ==
    IF isStarted
    THEN [started |-> isStarted, workers |-> ws]
    ELSE [started |-> TRUE,
          workers |-> [w \in SpawnedWorkers |-> [state |-> "waiting", job |-> None]]]

\* a put_nowait on a queue without maxsize
PoolSubmit_NeverFull(q, job) == [accepted |-> TRUE, queue |-> Append(q, job)]

\* a put_nowait that puts the job at the head of the queue
PoolSubmit_PutFront(q, job) ==
    IF Len(q) < queue_limit
    THEN [accepted |-> TRUE, queue |-> <<job>> \o q]
    ELSE [accepted |-> FALSE, queue |-> q]

\* a put_nowait that lets one item more in
PoolSubmit_OffByOne(q, job) ==
    IF Len(q) <= queue_limit
    THEN [accepted |-> TRUE, queue |-> Append(q, job)]
    ELSE [accepted |-> FALSE, queue |-> q]

\* WorkerPool.submit on a started pool: put_nowait, QueueFull -> False
PoolSubmit(q, job) ==
    IF Len(q) < queue_limit
    THEN [accepted |-> TRUE, queue |-> Append(q, job)]
    ELSE [accepted |-> FALSE, queue |-> q]

\* a submit without the test of _started
WorkerPool_submit_NoStartedCheck(isStarted, q, job) ==
    [raised |-> FALSE, accepted |-> PoolSubmit(q, job).accepted,
     queue |-> PoolSubmit(q, job).queue]

\* WorkerPool.submit on any pool: RuntimeError unless _started, else put_nowait
WorkerPool_submit(isStarted, q, job) ==
    IF ~isStarted
    THEN [raised |-> TRUE, accepted |-> FALSE, queue |-> q]
    ELSE [raised |-> FALSE, accepted |-> PoolSubmit(q, job).accepted,
          queue |-> PoolSubmit(q, job).queue]

\* asyncio.Queue.task_done as called from _worker_loop's finally: the counter
\* drops, and at zero the join() waiters are woken (they resume later)
TaskDone ==
    /\ unfinished' = unfinished - 1
    /\ waitPc' = IF unfinished = 1 /\ waitPc = "waiting" THEN "woken" ELSE waitPc

LiveStates == {"waiting", "handling"}
DoneStates == {"returned", "raised"}

\* ---------------------------------------------------------------- orchestrator.py
\* a WorkerHandler without its except clause
WorkerHandlerCall_NoCatch(executeRaised) ==
    [raises |-> executeRaised, logs |-> FALSE]

\* WorkerHandler.__call__: whatever execute raises is caught and logged
WorkerHandlerCall(executeRaised) ==
    [raises |-> FALSE, logs |-> executeRaised]

\* what awaiting self._handler(item) gives the worker loop
HandlerCall(kind, workRaised) ==
    IF kind = "WorkerHandler"
    THEN WorkerHandlerCall(workRaised)
    ELSE [raises |-> workRaised, logs |-> FALSE]

\* _worker_loop after the handler: try/finally without except, so an
\* exception leaves the while loop and ends the task
WorkerLoopAfter(raises) == IF raises THEN "raised" ELSE "waiting"

\* ---------------------------------------------------------------- orchestrator.py: highlights
\* the four dicts of _collect_audit_highlights
HighlightSets == {"files_written", "files_read", "network_connections", "subprocesses"}

\* parsed audit records (_parse_audit_record), each with what the extractors
\* (_extract_written_file, _extract_read_file, _extract_network_connection,
\* _extract_subprocess) find in it: the dict it feeds and the items
AuditRecords ==
    { [event |-> "open", set |-> "files_written", items |-> <<"/a">>],
      [event |-> "open", set |-> "files_written", items |-> <<"/b">>],
      [event |-> "open", set |-> "files_written", items |-> <<"/c">>],
      [event |-> "socket.connect", set |-> "network_connections",
       items |-> <<"connect h:1", "connect h:2">>],
      [event |-> "import", set |-> "none", items |-> <<>>] }

Stages == {"install", "sandbox"}

\* f"{stage}: {item}"
HighlightEntry(stage, item) == [stage |-> stage, item |-> item]

\* a list in place of the dict: every occurrence is appended
CappedInsert_NoDedup(d, key) ==
    IF Len(d) + 1 > HIGHLIGHT_MAX_ITEMS THEN Tail(Append(d, key)) ELSE Append(d, key)

\* the assignment d[key] = None alone, without the pop of the oldest key
CappedInsert_NoEvict(d, key) ==
    IF \E i \in DOMAIN d : d[i] = key THEN d ELSE Append(d, key)

\* d[key] = None; if len(d) > HIGHLIGHT_MAX_ITEMS: d.pop(next(iter(d)))
\* on an insertion-ordered dict given as the sequence of its keys
CappedInsert(d, key) ==
    IF \E i \in DOMAIN d : d[i] = key
    THEN d
    ELSE IF Len(d) + 1 > HIGHLIGHT_MAX_ITEMS THEN Tail(Append(d, key)) ELSE Append(d, key)

\* the loop `for item in connection` (one item for the other dicts)
RECURSIVE InsertItems(_, _, _)
InsertItems(d, stage, items) ==
    IF items = <<>>
    THEN d
    ELSE InsertItems(CappedInsert(d, HighlightEntry(stage, Head(items))), stage, Tail(items))

NoHighlights ==
    [sets |-> [name \in HighlightSets |-> <<>>], event_counts |-> <<>>]

\* event_counts[event] = event_counts.get(event, 0) + 1
CountEvent(counts, event) ==
    [e \in DOMAIN counts \cup {event} |->
        IF e = event
        THEN (IF e \in DOMAIN counts THEN counts[e] ELSE 0) + 1
        ELSE counts[e]]

\* the body of _collect_audit_highlights' inner loop for one parsed record
CollectRecord(h, stage, record) ==
    [sets |-> [name \in HighlightSets |->
                  IF record.set = name
                  THEN InsertItems(h.sets[name], stage, record.items)
                  ELSE h.sets[name]],
     event_counts |-> IF record.event # "" THEN CountEvent(h.event_counts, record.event)
                      ELSE h.event_counts]

\* _collect_audit_highlights over a whole stream of [stage, record]
RECURSIVE CollectFrom(_, _)
CollectFrom(h, lines) ==
    IF lines = <<>>
    THEN h
    ELSE CollectFrom(CollectRecord(h, Head(lines).stage, Head(lines).record), Tail(lines))

_collect_audit_highlights(lines) == CollectFrom(NoHighlights, lines)

\* ---------------------------------------------------------------- orchestrator.py: _parse_audit_record
\* "install", "sandbox" as text
StageText(stage) ==
    IF stage = "install" THEN <<"i","n","s","t","a","l","l">>
    ELSE <<"s","a","n","d","b","o","x">>

\* index of the first c in s, 0 when there is none
FirstIndexOf(s, c) ==
    IF \E i \in DOMAIN s : s[i] = c
    THEN CHOOSE i \in DOMAIN s : s[i] = c /\ \A j \in 1..(i - 1) : s[j] # c
    ELSE 0

\* str.partition(sep)
partition(s, sep) ==
    LET i == FirstIndexOf(s, sep)
    IN  IF i = 0
        THEN [prefix |-> s, sep |-> <<>>, tail |-> <<>>]
        ELSE [prefix |-> SubSeq(s, 1, i - 1), sep |-> <<sep>>,
              tail |-> SubSeq(s, i + 1, Len(s))]

\* the JSON documents among the texts explored: {} and {"e":1} are objects,
\* [1] is an array
EmptyObjectText == <<"{", "}">>
EventObjectText == <<"{", "\"", "e", "\"", ":", "1", "}">>
ArrayText == <<"[", "1", "]">>

\* json.loads(payload): surrounding whitespace is allowed; any other text
\* raises JSONDecodeError
json_loads(payload) ==
    LET text == Strip(payload)
    IN  IF text = EmptyObjectText THEN [ok |-> TRUE, kind |-> "dict", value |-> "{}"]
        ELSE IF text = EventObjectText THEN [ok |-> TRUE, kind |-> "dict", value |-> "{e: 1}"]
        ELSE IF text = ArrayText THEN [ok |-> TRUE, kind |-> "list", value |-> "[1]"]
        ELSE [ok |-> FALSE, kind |-> "error", value |-> "JSONDecodeError"]

\* the None _parse_audit_record returns
NoRecord == "None"

\* _parse_audit_record(raw_line): the dict, or None
_parse_audit_record(raw_line) ==
    LET line == Strip(raw_line)
        parts == partition(line, ":")
        prefixed == /\ ~StartsWith(line, <<"{">>)
                    /\ parts.sep # <<>>
                    /\ parts.prefix \in {StageText("install"), StageText("sandbox")}
                    /\ StartsWith(parts.tail, <<"{">>)
        payload == IF prefixed THEN parts.tail ELSE line
        loaded == json_loads(payload)
    IN  IF line = <<>> THEN NoRecord
        ELSE IF ~StartsWith(payload, <<"{">>) THEN NoRecord
        ELSE IF ~loaded.ok THEN NoRecord
        ELSE IF loaded.kind # "dict" THEN NoRecord
        ELSE loaded.value

\* f"{stage}:{line}" of _merge_audit_logs
MergedLine(stage, line) == StageText(stage) \o <<":">> \o line

\* audit lines: a body between leading and trailing whitespace. The bodies:
\* two objects, an event name (what the sandbox audit hook writes), an array,
\* broken JSON, an object with text behind it, nothing, a line that carries a
\* stage prefix already, a line with another prefix
LineBodies ==
    { EmptyObjectText,
      EventObjectText,
      <<"o","p","e","n">>,
      ArrayText,
      <<"{", "e">>,
      EmptyObjectText \o <<"x">>,
      <<>>,
      MergedLine("install", EmptyObjectText),
      MergedLine("sandbox", EventObjectText),
      <<"x", ":">> \o EmptyObjectText }

LeadingSpace == {<<>>, <<" ">>, <<"\t">>}

TrailingSpace == {<<>>, <<"\n">>, <<" ", "\n">>}

AuditLineTexts ==
    {lead \o body \o trail : lead \in LeadingSpace, body \in LineBodies, trail \in TrailingSpace}

\* no line has been parsed
PaIdle == [pc |-> "idle", line |-> <<>>, stage |-> "install", bare |-> NoRecord, merged |-> NoRecord]

\* ---------------------------------------------------------------- process_runner.py
\* exit codes a child ends with on its own
ExitCodes == {0, 1, 124}

\* Process.returncode is None while the exit has not been collected, and
\* <<code>> afterwards
NoReturncode == <<>>

\* the returncode of a child ended by SIGKILL
SIGKILLED == -9

\* the returncode run reports for an expired timeout
TIMEOUT_RETURNCODE == 124

Streams == {"stdout", "stderr"}

\* proc.returncode or 0
ReturncodeOrZero(returncode) == IF returncode = NoReturncode THEN 0 ELSE returncode[1]

NoProcessResult == [returncode |-> 0, timed_out |-> FALSE]

\* ProcessResult(returncode=124 if timed_out else (proc.returncode or 0), ...)
ProcessResult(timed_out, returncode) ==
    [returncode |-> IF timed_out THEN TIMEOUT_RETURNCODE ELSE ReturncodeOrZero(returncode),
     timed_out |-> timed_out]

\* run before it is called. child: "none", "running", "exited" (the event loop
\* has collected the exit); code: what the child exits with if nothing kills
\* it; signalled: SIGKILL was sent; pipes: "open" or "eof" (a _read_capped
\* task ends at EOF); proc_gone: the transport has dropped its Popen
\* (connection lost: exit collected and every pipe closed); joined: the reader
\* tasks run has awaited; expired, kill_called, reaped: history
PrIdle ==
    [pc |-> "idle", child |-> "none", code |-> 0, returncode |-> NoReturncode,
     signalled |-> FALSE, pipes |-> [st \in Streams |-> "open"], proc_gone |-> FALSE,
     timed_out |-> FALSE, joined |-> {}, expired |-> FALSE, kill_called |-> FALSE,
     reaped |-> FALSE, result |-> NoProcessResult]

\* ---------------------------------------------------------------- files under /tmp
\* a path is its stem, the id in its name and its suffixes
NoPath == [stem |-> "none", id |-> 0, suffix |-> <<>>]

\* PipInstaller.install: /tmp/pip-audit-<uuid4 hex>.jsonl
PipAuditPath == [stem |-> "pip-audit", id |-> 0, suffix |-> <<".jsonl">>]

\* an audit path that leaves the run_id out: /tmp/audit.jsonl
AuditPath_NoRunId(run_id) == [stem |-> "audit", id |-> 0, suffix |-> <<".jsonl">>]

\* /tmp/pip-audit-<uuid4 hex>.jsonl of the install that drew `uuid`
PipAuditPathOf(uuid) == [stem |-> "pip-audit", id |-> uuid, suffix |-> <<".jsonl">>]

\* /tmp/audit-<run_id>.jsonl: NsJailSandboxExecutor.run's audit_path and the
\* merged_path of _compress_audit_sources
AuditPath(run_id) == [stem |-> "audit", id |-> run_id, suffix |-> <<".jsonl">>]

\* tmp_path / "run-audit.jsonl": where the unit tests' FakeSandboxExecutor
\* reports its audit
RunAuditPath == [stem |-> "run-audit", id |-> 0, suffix |-> <<".jsonl">>]

\* /tmp/audit-report-<run_id>.html
ReportPath(run_id) == [stem |-> "audit-report", id |-> run_id, suffix |-> <<".html">>]

\* source.with_suffix(source.suffix + ".gz")
GzPath(path) == [path EXCEPT !.suffix = Append(@, ".gz")]

\* Path(path).exists(), write, unlink(missing_ok=True)
Exists(files, path) == path \in DOMAIN files

WriteFile(files, path, content) ==
    [q \in DOMAIN files \cup {path} |-> IF q = path THEN content ELSE files[q]]

Unlink(files, path) == [q \in DOMAIN files \ {path} |-> files[q]]

\* a line of an audit file: the stage prefixes the merge has put before it,
\* outermost first, and the JSON record
RawLine(record) == [prefix |-> <<>>, record |-> record]

\* f"{stage}:{line}"
PrefixLine(stage, line) == [line EXCEPT !.prefix = <<stage>> \o @]

PrefixLines(stage, lines) == [i \in DOMAIN lines |-> PrefixLine(stage, lines[i])]

\* _parse_audit_record: one stage prefix is dropped; a line that then does not
\* start with "{" gives no record
ParsesAsRecord(line) == Len(line.prefix) <= 1

\* the [stage, record] stream _collect_audit_highlights reads from one file
RECURSIVE StageLines(_, _)
StageLines(stage, lines) ==
    IF lines = <<>>
    THEN <<>>
    ELSE (IF ParsesAsRecord(Head(lines))
          THEN <<[stage |-> stage, record |-> Head(lines).record]>>
          ELSE <<>>) \o StageLines(stage, Tail(lines))

\* compression.gzip_file: the file system after it and the path it returns
gzip_file(files, path) ==
    [fs |-> Unlink(WriteFile(files, GzPath(path), [gzip |-> files[path]]), path),
     path |-> GzPath(path)]

\* gzip_file raising an OSError on the way: the source stays, and the
\* destination exists or not (gzip.open creates it before the copy)
gzip_file_failed(files, path, created) ==
    IF created THEN WriteFile(files, GzPath(path), [gzip |-> <<>>]) ELSE files

\* ---------------------------------------------------------------- orchestrator.py: execute
\* _existing_path
_existing_path(files, path) ==
    IF path = NoPath THEN NoPath
    ELSE IF ~Exists(files, path) THEN NoPath
    ELSE path

\* what `for line in fin` yields for a source of _merge_audit_logs. The output
\* was opened with "w" before, so a source at the output's own path has lost
\* its content: the read sees as many of the lines written so far as have
\* left the write buffer (`flushed` of them; none for a small audit)
MergeSourceLines(files, output_path, source_path, written, flushed) ==
    IF source_path = output_path
    THEN SubSeq(written, 1, IF flushed <= Len(written) THEN flushed ELSE Len(written))
    ELSE files[source_path]

\* _merge_audit_logs(output_path, (("install", p1), ("sandbox", p2))): the
\* lines of the output file
MergedLines(files, output_path, install_path, sandbox_path, flushed) ==
    LET first == PrefixLines("install", files[install_path])
    IN  first \o PrefixLines("sandbox",
                    MergeSourceLines(files, output_path, sandbox_path, first, flushed))

\* _compress_audit_sources: the file system after it, the path it returns and
\* whether it raised. `fail` names the step that raises an OSError ("merge",
\* "gzip" or "none"); `created`: the failing step had created its output
_compress_audit_sources(files, run_id, install_audit_path, sandbox_audit_path, fail, created, flushed) ==
    IF install_audit_path # NoPath /\ sandbox_audit_path # NoPath
    THEN LET merged_path == AuditPath(run_id)
             merged == WriteFile(files, merged_path,
                           MergedLines(files, merged_path, install_audit_path,
                                       sandbox_audit_path, flushed))
         IN  IF fail = "merge"
             THEN [fs |-> IF created THEN WriteFile(files, merged_path, <<>>) ELSE files,
                   path |-> NoPath, raised |-> TRUE]
             ELSE IF fail = "gzip"
             THEN [fs |-> gzip_file_failed(merged, merged_path, created),
                   path |-> NoPath, raised |-> TRUE]
             ELSE LET z == gzip_file(merged, merged_path)
                  IN  [fs |-> Unlink(Unlink(z.fs, install_audit_path), sandbox_audit_path),
                       path |-> z.path, raised |-> FALSE]
    ELSE IF install_audit_path # NoPath \/ sandbox_audit_path # NoPath
    THEN LET source == IF install_audit_path # NoPath THEN install_audit_path
                       ELSE sandbox_audit_path
         IN  IF fail = "gzip"
             THEN [fs |-> gzip_file_failed(files, source, created),
                   path |-> NoPath, raised |-> TRUE]
             ELSE LET z == gzip_file(files, source)
                  IN  [fs |-> z.fs, path |-> z.path, raised |-> FALSE]
    ELSE [fs |-> files, path |-> NoPath, raised |-> FALSE]

\* has_data of _write_html_report
HasData(h) ==
    \/ \E name \in HighlightSets : h.sets[name] # <<>>
    \/ DOMAIN h.event_counts # {}

\* _write_html_report: nothing without highlights; else the report is written
\* to /tmp/audit-report-<run_id>.html. `fail`: building or writing it raises,
\* `created`: after the file was created
_write_html_report(files, run_id, h, fail, created) ==
    IF ~HasData(h)
    THEN [fs |-> files, path |-> NoPath, raised |-> FALSE]
    ELSE IF fail
    THEN [fs |-> IF created THEN WriteFile(files, ReportPath(run_id), [html |-> <<>>])
                 ELSE files,
          path |-> NoPath, raised |-> TRUE]
    ELSE [fs |-> WriteFile(files, ReportPath(run_id), [html |-> run_id]),
          path |-> ReportPath(run_id), raised |-> FALSE]

\* _build_attachment_list
_build_attachment_list_HtmlOnly(telemetry_attachment_path, html_attachment_path) ==
    IF html_attachment_path # NoPath THEN <<html_attachment_path>> ELSE <<>>

\* _build_attachment_list: the telemetry attachment, then the HTML report
_build_attachment_list(telemetry_attachment_path, html_attachment_path) ==
    (IF telemetry_attachment_path # NoPath THEN <<telemetry_attachment_path>> ELSE <<>>)
        \o (IF html_attachment_path # NoPath THEN <<html_attachment_path>> ELSE <<>>)

\* a cleanup that forgets the HTML report
_cleanup_attachments_TelemetryOnly(files, attachment_paths) ==
    IF attachment_paths = <<>> THEN files ELSE Unlink(files, attachment_paths[1])

\* _cleanup_attachments: unlink(missing_ok=True) of every attachment
RECURSIVE _cleanup_attachments(_, _)
_cleanup_attachments(files, attachment_paths) ==
    IF attachment_paths = <<>>
    THEN files
    ELSE _cleanup_attachments(Unlink(files, Head(attachment_paths)), Tail(attachment_paths))

\* RunMode
RunModes == {"install", "execute", "execute_module"}

\* an execute that runs the sandbox whatever the mode
AfterInstall_IgnoreMode(ok, mode) == IF ~ok THEN "compress" ELSE "sandbox"

\* execute after the installer returned: `if not install.ok` and
\* `if job.mode == RunMode.INSTALL` go on without the sandbox
AfterInstall(ok, mode) ==
    IF ~ok THEN "compress"
    ELSE IF mode = "install" THEN "compress"
    ELSE "sandbox"

NoResult ==
    [ok |-> FALSE, timed_out |-> FALSE, audit_jsonl_path |-> NoPath, returned |-> FALSE,
     stdout |-> <<>>, stderr |-> <<>>]
NoSummary == [run_id |-> NoRunId, ok |-> FALSE, message |-> <<>>, attachment_path |-> NoPath]

\* what a process wrote to stdout or stderr: nothing, or "boom"
Outputs == {<<>>, <<"b","o","o","m">>}

\* _summarize_install_failure on output of one short line without an nsjail
\* hint: stderr.strip() or stdout.strip(), or a fixed text when both are empty
_summarize_install_failure(install_result) ==
    LET raw == IF Strip(install_result.stderr) # <<>> THEN Strip(install_result.stderr)
               ELSE Strip(install_result.stdout)
    IN  IF raw = <<>> THEN "no process output captured" ELSE raw

\* an install failure reported by the installer's output alone
InstallFailedMessage_Bare(install) == <<_summarize_install_failure(install)>>

\* f"pip install failed: {_summarize_install_failure(install)}", piece by piece
InstallFailedMessage(install) ==
    <<"pip install failed: ", _summarize_install_failure(install)>>

\* a run message without the timeout note
RunMessage_NoTimeoutNote(sandbox) ==
    <<"run ", IF sandbox.ok THEN "ok" ELSE "failed", "", "; stdout=", Len(sandbox.stdout),
      "B stderr=", Len(sandbox.stderr), "B">>

\* f"run {outcome}{timeout_note}; stdout={len(sandbox.stdout)}B
\* stderr={len(sandbox.stderr)}B", piece by piece
RunMessage(sandbox) ==
    LET outcome == IF sandbox.ok THEN "ok" ELSE "failed"
        timeout_note == IF sandbox.timed_out THEN " (timed out)" ELSE ""
    IN  <<"run ", outcome, timeout_note, "; stdout=", Len(sandbox.stdout),
          "B stderr=", Len(sandbox.stderr), "B">>

\* ExecutionSummary.message of the three outcomes of execute
SummaryMessage(install, mode, sandbox) ==
    IF ~install.ok THEN InstallFailedMessage(install)
    ELSE IF mode = "install" THEN <<"install ok">>
    ELSE RunMessage(sandbox)

\* execute before it is called; `audits` is history: the lines the audit
\* files held when _existing_path found them
ExIdle ==
    [pc |-> "idle",
     job |-> [run_id |-> NoRunId, mode |-> "install"],
     install |-> NoResult,
     install_audit_path |-> NoPath,
     sandbox |-> NoResult,
     sandbox_audit_path |-> NoPath,
     audits |-> [install |-> <<>>, sandbox |-> <<>>],
     highlights |-> NoHighlights,
     telemetry_attachment_path |-> NoPath,
     html_attachment_path |-> NoPath,
     summary |-> NoSummary,
     send_raised |-> FALSE,
     raisedBy |-> "none"]

NoFiles == [q \in {} |-> <<>>]

\* the lines of an audit file that _existing_path found, none for None
AuditLines(files, path) == IF path = NoPath THEN <<>> ELSE files[path]

\* audit files an installer and a sandbox run leave behind
InstallAudits ==
    { <<>>,
      <<RawLine([event |-> "open", set |-> "files_written", items |-> <<"/a">>])>>,
      <<RawLine([event |-> "open", set |-> "files_written", items |-> <<"/a">>]),
        RawLine([event |-> "import", set |-> "none", items |-> <<>>])>> }

SandboxAudits ==
    { <<>>,
      <<RawLine([event |-> "open", set |-> "files_written", items |-> <<"/c">>])>> }

\* ---------------------------------------------------------------- runtime_paths.py
Digits == {"0", "1", "2", "3", "4", "5", "6", "7", "8", "9"}

\* the character class [A-Za-z0-9._-]
IsSafeChar(c) ==
    \/ \E i \in DOMAIN LowerAlpha : LowerAlpha[i] = c
    \/ \E i \in DOMAIN Upper : Upper[i] = c
    \/ c \in Digits
    \/ c \in {".", "_", "-"}

RECURSIVE DropUnsafe(_)
DropUnsafe(s) == IF s # <<>> /\ ~IsSafeChar(Head(s)) THEN DropUnsafe(Tail(s)) ELSE s

\* re.sub(r"[^A-Za-z0-9._-]+", "_", value)
RECURSIVE _sanitize_path_component(_)
_sanitize_path_component(value) ==
    IF value = <<>> THEN <<>>
    ELSE IF IsSafeChar(Head(value))
    THEN <<Head(value)>> \o _sanitize_path_component(Tail(value))
    ELSE <<"_">> \o _sanitize_path_component(DropUnsafe(Tail(value)))

\* site_packages_dir: the directory's name under JAIL_SITE_ROOT,
\* f"{safe_package}-{safe_version}"
site_packages_dir(package_name, version) ==
    _sanitize_path_component(package_name) \o <<"-">> \o _sanitize_path_component(version)

\* ---------------------------------------------------------------- execute, side by side
\* the worker tasks of the pool, each running one execute(job) at a time
ConcurrentJobs == 1..MAX_CONCURRENCY

\* what the jobs ask for: a package the denylist lets through or another
\* one, in one of two versions
JobPackages == {PoolPackage, <<"f","l","a","s","k">>}

JobVersions == {<<"1">>, <<"2">>}

\* the audit a pip run and a sandbox run of job `run_id` leave behind
JobInstallAudit(run_id) ==
    <<RawLine([event |-> "open", set |-> "files_written", items |-> <<"/a">>, by |-> run_id])>>

JobSandboxAudit(run_id) ==
    <<RawLine([event |-> "open", set |-> "files_written", items |-> <<"/c">>, by |-> run_id])>>

\* nothing imported yet
NotImported == <<>>

\* a worker between two jobs. imported: what the sandbox found at its
\* PYTHONPATH, <<k>> for the package job k's install put there, <<0>> for a
\* directory that is not there; sent: history, the attachments send_summary
\* found in place
CjIdle ==
    [pc |-> "idle", run_id |-> NoRunId, package_name |-> <<>>, version |-> <<>>,
     mode |-> "install", install_ok |-> FALSE, install_audit_path |-> NoPath,
     sandbox_audit_path |-> NoPath, imported |-> NotImported,
     telemetry_attachment_path |-> NoPath, html_attachment_path |-> NoPath,
     sent |-> <<>>]

\* install_target of the job worker j runs
InstallTarget(j) == site_packages_dir(cj[j].package_name, cj[j].version)

\* worker j is inside execute
InFlight(j) == cj[j].pc \notin {"idle", "done"}

\* ---------------------------------------------------------------- webhook_client.py
\* what the POST of DiscordWebhookClient.send_summary comes to
PostOutcomes == {"ok", "http_error", "transport_error"}

\* DiscordWebhookClient.send_summary: client.post and raise_for_status run in a
\* try/finally without except, so either failure leaves the call as an exception
SendSummaryRaises(post) == post # "ok"

\* ---------------------------------------------------------------- service.py
\* SubmissionService.submit with the limiter consulted before the denylist
ServiceSubmit_LimiterFirst(package_name, client_ip) ==
    LET allow == RateLimiterAllow(rl_state, client_ip, now)
    IN  IF ~allow.ok
        THEN [status |-> "rate_limited", run_id |-> NoRunId, limiterCalled |-> TRUE,
              allow |-> allow, minted |-> FALSE, queue |-> queue]
        ELSE IF DenylistVerdict[package_name]
        THEN [status |-> "denied_package", run_id |-> NoRunId, limiterCalled |-> TRUE,
              allow |-> allow, minted |-> FALSE, queue |-> queue]
        ELSE LET decision == PoolSubmit(queue, RunJob(next_uuid, package_name))
             IN  IF ~decision.accepted
                 THEN [status |-> "overloaded", run_id |-> NoRunId, limiterCalled |-> TRUE,
                       allow |-> allow, minted |-> TRUE, queue |-> decision.queue]
                 ELSE [status |-> "accepted", run_id |-> next_uuid, limiterCalled |-> TRUE,
                       allow |-> allow, minted |-> TRUE, queue |-> decision.queue]

\* SubmissionService.submit that hands the minted run_id back when overloaded
ServiceSubmit_LeakRunId(package_name, client_ip) ==
    IF DenylistVerdict[package_name]
    THEN [status |-> "denied_package", run_id |-> NoRunId, limiterCalled |-> FALSE,
          allow |-> [ok |-> FALSE, state |-> rl_state], minted |-> FALSE, queue |-> queue]
    ELSE LET allow == RateLimiterAllow(rl_state, client_ip, now)
         IN  IF ~allow.ok
             THEN [status |-> "rate_limited", run_id |-> NoRunId, limiterCalled |-> TRUE,
                   allow |-> allow, minted |-> FALSE, queue |-> queue]
             ELSE LET decision == PoolSubmit(queue, RunJob(next_uuid, package_name))
                  IN  IF ~decision.accepted
                      THEN [status |-> "overloaded", run_id |-> next_uuid,
                            limiterCalled |-> TRUE, allow |-> allow, minted |-> TRUE,
                            queue |-> decision.queue]
                      ELSE [status |-> "accepted", run_id |-> next_uuid,
                            limiterCalled |-> TRUE, allow |-> allow, minted |-> TRUE,
                            queue |-> decision.queue]

\* a submit that gives the quota back when the queue turns the job away
ServiceSubmit_RefundOverloaded(package_name, client_ip) ==
    IF DenylistVerdict[package_name]
    THEN [status |-> "denied_package", run_id |-> NoRunId, limiterCalled |-> FALSE,
          allow |-> [ok |-> FALSE, state |-> rl_state], minted |-> FALSE, queue |-> queue]
    ELSE LET allow == RateLimiterAllow(rl_state, client_ip, now)
         IN  IF ~allow.ok
             THEN [status |-> "rate_limited", run_id |-> NoRunId, limiterCalled |-> TRUE,
                   allow |-> allow, minted |-> FALSE, queue |-> queue]
             ELSE LET decision == PoolSubmit(queue, RunJob(next_uuid, package_name))
                  IN  IF ~decision.accepted
                      THEN [status |-> "overloaded", run_id |-> NoRunId,
                            limiterCalled |-> FALSE,
                            allow |-> [ok |-> TRUE, state |-> rl_state], minted |-> TRUE,
                            queue |-> decision.queue]
                      ELSE [status |-> "accepted", run_id |-> next_uuid,
                            limiterCalled |-> TRUE, allow |-> allow, minted |-> TRUE,
                            queue |-> decision.queue]

\* SubmissionService.submit: the SubmitResult and what the call did on the way
ServiceSubmit(package_name, client_ip) ==
    IF DenylistVerdict[package_name]
    THEN [status |-> "denied_package", run_id |-> NoRunId, limiterCalled |-> FALSE,
          allow |-> [ok |-> FALSE, state |-> rl_state], minted |-> FALSE, queue |-> queue]
    ELSE LET allow == RateLimiterAllow(rl_state, client_ip, now)
         IN  IF ~allow.ok
             THEN [status |-> "rate_limited", run_id |-> NoRunId, limiterCalled |-> TRUE,
                   allow |-> allow, minted |-> FALSE, queue |-> queue]
             ELSE LET decision == PoolSubmit(queue, RunJob(next_uuid, package_name))
                  IN  IF ~decision.accepted
                      THEN [status |-> "overloaded", run_id |-> NoRunId,
                            limiterCalled |-> TRUE, allow |-> allow, minted |-> TRUE,
                            queue |-> decision.queue]
                      ELSE [status |-> "accepted", run_id |-> next_uuid,
                            limiterCalled |-> TRUE, allow |-> allow, minted |-> TRUE,
                            queue |-> decision.queue]

\* ---------------------------------------------------------------- auth.py, routes.py
\* Settings.api_token, as the tests set it
api_token == <<"s","e","c","r","e","t">>

BearerPrefix == <<"B","e","a","r","e","r"," ">>

\* the Authorization header is absent (None)
NoHeader == <<>>

\* "Bearer secret"
BearerSecret == BearerPrefix \o api_token

\* Authorization headers a request may carry: none, "Bearer secret",
\* "Bearer wrong", "secret", "bearer secret", "Bearer "
AuthHeaders ==
    { NoHeader,
      BearerSecret,
      BearerPrefix \o <<"w","r","o","n","g">>,
      api_token,
      <<"b","e","a","r","e","r"," ">> \o api_token,
      BearerPrefix }

\* a bearer check that looks at the scheme and not at the token
is_valid_bearer_SchemeOnly(auth_header, expected_token) ==
    IF auth_header = NoHeader
    THEN FALSE
    ELSE StartsWith(auth_header, BearerPrefix)

\* is_valid_bearer(auth_header, expected_token)
is_valid_bearer(auth_header, expected_token) ==
    IF auth_header = NoHeader
    THEN FALSE
    ELSE IF ~StartsWith(auth_header, BearerPrefix)
    THEN FALSE
    ELSE SubSeq(auth_header, Len(BearerPrefix) + 1, Len(auth_header)) = expected_token

\* the optional run targets of a request body: none given, or all three
TargetSets ==
    { [file_path |-> NoTarget, entrypoint |-> NoTarget, module_name |-> NoTarget],
      [file_path |-> "/tmp/runner.py", entrypoint |-> "requests.cli:main",
       module_name |-> "requests"] }

\* schema-valid request bodies; mode may be left out ("absent")
RequestBodies ==
    [package_name : {torch, PoolPackage}, mode : {"absent"} \cup RunModes,
     targets : TargetSets]

\* TriageRequest: the parsed body, `mode: RunMode = RunMode.INSTALL`
TriageRequest(body) ==
    [package_name |-> body.package_name,
     mode |-> IF body.mode = "absent" THEN "install" ELSE body.mode,
     file_path |-> body.targets.file_path,
     entrypoint |-> body.targets.entrypoint,
     module_name |-> body.targets.module_name]

\* the parameters of SubmissionService.submit
SubmitParameters == {"package_name", "version", "client_ip"}

\* the arguments triage passes to service.submit, positional ones by their
\* parameter
TriageArguments ==
    {"package_name", "version", "client_ip", "mode", "file_path", "entrypoint", "module_name"}

\* Python binds a call only if every keyword names a parameter; otherwise
\* TypeError before the body runs
CallBinds(arguments, parameters) == arguments \subseteq parameters

\* triage after service.submit returned: the HTTPException or the TriageAccepted
TriageResponse(result) ==
    IF result.status = "denied_package"
    THEN [status |-> 429, detail |-> "package is denied", run_id |-> NoRunId]
    ELSE IF result.status = "rate_limited"
    THEN [status |-> 429, detail |-> "rate limit exceeded", run_id |-> NoRunId]
    ELSE IF result.status = "overloaded"
    THEN [status |-> 503, detail |-> "queue full", run_id |-> NoRunId]
    ELSE [status |-> 202, detail |-> "accepted", run_id |-> result.run_id]

\* what the server answers when the handler raises anything but HTTPException
InternalServerError == [status |-> 500, detail |-> "Internal Server Error", run_id |-> NoRunId]

NoRequest ==
    [n |-> 0, authorization |-> NoHeader, payload |-> <<>>, client_ip |-> "",
     response |-> [status |-> 0, detail |-> "", run_id |-> NoRunId]]

\* ---------------------------------------------------------------- webhook_client.py
\* paths a caller may hand to send_summary
AttachmentCandidates == {GzPath(AuditPath(1)), GzPath(PipAuditPath), ReportPath(1)}

\* send_summary before it is called. index: the position of `path` in
\* attachment_paths; opened_handles: the handles, named by that position;
\* open: the handles that are open
WhIdle ==
    [pc |-> "idle", attachment_paths |-> <<>>, index |-> 1, opened_handles |-> <<>>,
     open |-> {}, raisedBy |-> "none"]

\* ---------------------------------------------------------------- initial state
NoCall == [package_name |-> <<>>, client_ip |-> "", status |-> "none", run_id |-> NoRunId]

\* WorkerPool.__init__, FixedWindowRateLimiter.__init__ and SubmissionService:
\* everything construction leaves empty
Constructed ==
    /\ gate = FALSE
    /\ noopCalls = {}
    /\ started = FALSE
    /\ queue = <<>>
    /\ unfinished = 0
    /\ workers = <<>>
    /\ stopPc = "idle"
    /\ stopLeft = 0
    /\ waitPc = "none"
    /\ starts = 0
    /\ rl_state = <<>>
    /\ now = 0
    /\ next_uuid = 1
    /\ nsub = 0
    /\ last = NoCall
    /\ allowedAt = [k \in ClientIps |-> <<>>]
    /\ accepted = {}
    /\ invoked = [r \in RunIds |-> 0]
    /\ order = <<>>
    /\ raisedIds = {}
    /\ logged = {}
    /\ stage_lines = <<>>
    /\ line_no = 0
    /\ highlights = NoHighlights
    /\ ex = ExIdle
    /\ fs = NoFiles
    /\ sent = <<>>
    /\ sandbox_calls = 0
    /\ lim = [limit |-> TEST_LIMIT, window_sec |-> TEST_WINDOW_SEC, state |-> <<>>]
    /\ lim_calls = <<>>
    /\ http = NoRequest
    /\ wh = WhIdle
    /\ pa = PaIdle
    /\ pr = PrIdle
    /\ cj = [j \in ConcurrentJobs |-> CjIdle]
    /\ site = NoFiles
    /\ tmp = NoFiles

\* the application as create_app builds it, with the production WorkerHandler
\* or with any other coroutine function as the pool's handler
Init ==
    /\ handlerKind \in {"callable", "WorkerHandler"}
    /\ settings = [max_concurrency |-> MAX_CONCURRENCY, queue_limit |-> QUEUE_LIMIT]
    /\ Constructed

\* ---------------------------------------------------------------- actions
\* time.monotonic() advances
Tick ==
    /\ now < MaxTime
    /\ now' = now + 1
    /\ UNCHANGED <<setupVars, infraVars, callerVars, orchVars, highlightVars, gate, noopCalls, poolVars, waitPc, limiterVars, serviceVars, handlerVars>>

\* WorkerPool.start() on a pool that is not started. The lifespan awaits
\* start() and stop() one after the other, so neither runs while a stop() is
\* suspended.
Start ==
    /\ stopPc = "idle"
    /\ ~started
    /\ starts < MaxStarts
    /\ LET r == PoolStart(started, workers)
       IN  /\ started' = r.started
           /\ workers' = r.workers
    /\ starts' = starts + 1
    /\ UNCHANGED <<setupVars, infraVars, callerVars, orchVars, highlightVars, gate, noopCalls, queue, unfinished, stopPc, stopLeft, waitPc,
                   limiterVars, now, serviceVars, handlerVars>>

\* WorkerPool.start() on a started pool; the call is recorded
StartAgain ==
    /\ stopPc = "idle"
    /\ started
    /\ LET r == PoolStart(started, workers)
       IN  /\ started' = r.started
           /\ workers' = r.workers
    /\ noopCalls' = noopCalls \cup {"start"}
    /\ UNCHANGED <<setupVars, infraVars, callerVars, orchVars, highlightVars, gate, queue, unfinished, stopPc, stopLeft, starts, waitPc,
                   limiterVars, now, serviceVars, handlerVars>>

\* WorkerPool.stop() on a started pool, up to its first await
Stop ==
    /\ stopPc = "idle"
    /\ started
    /\ started' = FALSE
    /\ stopPc' = "put"
    /\ stopLeft' = Cardinality(DOMAIN workers)
    /\ UNCHANGED <<setupVars, infraVars, callerVars, orchVars, highlightVars, gate, noopCalls, queue, unfinished, workers, starts, waitPc,
                   limiterVars, now, serviceVars, handlerVars>>

\* WorkerPool.stop() on a pool that is not started: `return` at the first
\* test; the call is recorded
StopAgain ==
    /\ stopPc = "idle"
    /\ ~started
    /\ noopCalls' = noopCalls \cup {"stop"}
    /\ UNCHANGED <<setupVars, infraVars, callerVars, orchVars, highlightVars, gate, poolVars, waitPc, limiterVars, now, serviceVars,
                   handlerVars>>

\* a stop() that puts its sentinels with no regard for maxsize
StopPut_Unbounded ==
    /\ stopPc = "put"
    /\ stopLeft > 0
    /\ queue' = Append(queue, None)
    /\ unfinished' = unfinished + 1
    /\ stopLeft' = stopLeft - 1
    /\ stopPc' = IF stopLeft = 1 THEN "gather" ELSE "put"
    /\ UNCHANGED <<setupVars, infraVars, callerVars, orchVars, highlightVars, gate, noopCalls, started, workers, starts, waitPc, limiterVars, now,
                   serviceVars, handlerVars>>

\* stop(): one `await self._queue.put(None)`; it waits while the queue is full
StopPut ==
    /\ stopPc = "put"
    /\ stopLeft > 0
    /\ Len(queue) < queue_limit
    /\ queue' = Append(queue, None)
    /\ unfinished' = unfinished + 1
    /\ stopLeft' = stopLeft - 1
    /\ stopPc' = IF stopLeft = 1 THEN "gather" ELSE "put"
    /\ UNCHANGED <<setupVars, infraVars, callerVars, orchVars, highlightVars, gate, noopCalls, started, workers, starts, waitPc, limiterVars, now,
                   serviceVars, handlerVars>>

\* stop(): asyncio.gather(*self._workers, return_exceptions=True) completes
\* once every worker task is done; then self._workers = []
StopGather ==
    /\ stopPc = "gather"
    /\ \A w \in DOMAIN workers : workers[w].state \in DoneStates
    /\ workers' = <<>>
    /\ stopPc' = "idle"
    /\ UNCHANGED <<setupVars, infraVars, callerVars, orchVars, highlightVars, gate, noopCalls, started, queue, unfinished, stopLeft, starts, waitPc,
                   limiterVars, now, serviceVars, handlerVars>>

\* POST /v1/triage past the bearer check: SubmissionService.submit. Requests are
\* served only inside the lifespan, that is between start() and stop().
Submit(package_name, client_ip) ==
    /\ started
    /\ nsub < MaxSubmits
    /\ LET r == ServiceSubmit(package_name, client_ip)
       IN  /\ rl_state' = r.allow.state
           /\ allowedAt' = IF r.limiterCalled
                           THEN RecordAllow(allowedAt, client_ip, now, r.allow)
                           ELSE allowedAt
           /\ next_uuid' = IF r.minted THEN next_uuid + 1 ELSE next_uuid
           /\ queue' = r.queue
           /\ unfinished' = unfinished + (Len(r.queue) - Len(queue))
           /\ last' = [package_name |-> package_name, client_ip |-> client_ip,
                       status |-> r.status, run_id |-> r.run_id]
           /\ accepted' = IF r.status = "accepted" THEN accepted \cup {r.run_id} ELSE accepted
    /\ nsub' = nsub + 1
    /\ UNCHANGED <<setupVars, infraVars, callerVars, orchVars, highlightVars, gate, noopCalls, started, workers, stopPc, stopLeft, starts, waitPc, now,
                   handlerVars>>

\* SubmissionService.submit while the pool is not started (before start(), or
\* once stop() has cleared _started): the denylist and the limiter answer as
\* ever, then WorkerPool.submit raises RuntimeError, which nothing in
\* SubmissionService.submit catches
SubmitNotStarted(package_name, client_ip) ==
    /\ ~started
    /\ nsub < MaxSubmits
    /\ LET denied == DenylistVerdict[package_name]
           allow == IF denied THEN [ok |-> FALSE, state |-> rl_state]
                    ELSE RateLimiterAllow(rl_state, client_ip, now)
           call == WorkerPool_submit(started, queue, RunJob(next_uuid, package_name))
           status == IF denied THEN "denied_package"
                     ELSE IF ~allow.ok THEN "rate_limited"
                     ELSE IF call.raised THEN "RuntimeError"
                     ELSE IF call.accepted THEN "accepted"
                     ELSE "overloaded"
           reached == ~denied /\ allow.ok
       IN  /\ rl_state' = allow.state
           /\ allowedAt' = IF denied THEN allowedAt
                           ELSE RecordAllow(allowedAt, client_ip, now, allow)
           /\ next_uuid' = IF reached THEN next_uuid + 1 ELSE next_uuid
           /\ queue' = IF reached THEN call.queue ELSE queue
           /\ unfinished' = IF reached THEN unfinished + (Len(call.queue) - Len(queue))
                            ELSE unfinished
           /\ last' = [package_name |-> package_name, client_ip |-> client_ip,
                       status |-> status,
                       run_id |-> IF status = "accepted" THEN next_uuid ELSE NoRunId]
           /\ accepted' = IF status = "accepted" THEN accepted \cup {next_uuid} ELSE accepted
    /\ nsub' = nsub + 1
    /\ UNCHANGED <<setupVars, infraVars, callerVars, orchVars, highlightVars, gate, noopCalls, started, workers,
                   stopPc, stopLeft, starts, waitPc, now, handlerVars>>

\* _worker_loop: `item = await self._queue.get()` yields a job; the handler is entered
WorkerTakeJob(w) ==
    /\ w \in DOMAIN workers
    /\ workers[w].state = "waiting"
    /\ queue # <<>>
    /\ Head(queue) # None
    /\ queue' = Tail(queue)
    /\ workers' = [workers EXCEPT ![w] = [state |-> "handling", job |-> Head(queue)]]
    /\ invoked' = [invoked EXCEPT ![Head(queue).run_id] = @ + 1]
    /\ order' = Append(order, Head(queue).run_id)
    /\ UNCHANGED <<setupVars, infraVars, callerVars, orchVars, highlightVars, gate, noopCalls, started, unfinished, stopPc, stopLeft, starts, waitPc,
                   limiterVars, now, serviceVars, raisedIds, logged>>

\* _worker_loop: the item is None: task_done() in the finally, then return
WorkerTakeSentinel(w) ==
    /\ w \in DOMAIN workers
    /\ workers[w].state = "waiting"
    /\ queue # <<>>
    /\ Head(queue) = None
    /\ queue' = Tail(queue)
    /\ workers' = [workers EXCEPT ![w] = [state |-> "returned", job |-> None]]
    /\ TaskDone
    /\ UNCHANGED <<setupVars, infraVars, callerVars, orchVars, highlightVars, gate, noopCalls, started, stopPc, stopLeft, starts, limiterVars, now,
                   serviceVars, handlerVars>>

\* the handler invocation of worker w ends; workRaised: the work inside it raised
HandlerFinish(w, workRaised) ==
    /\ w \in DOMAIN workers
    /\ workers[w].state = "handling"
    /\ handlerKind = "gate" => gate /\ ~workRaised
    /\ LET call == HandlerCall(handlerKind, workRaised)
           run_id == workers[w].job.run_id
       IN  /\ workers' = [workers EXCEPT ![w] =
                            [state |-> WorkerLoopAfter(call.raises), job |-> None]]
           /\ raisedIds' = IF workRaised THEN raisedIds \cup {run_id} ELSE raisedIds
           /\ logged' = IF call.logs THEN logged \cup {run_id} ELSE logged
    /\ TaskDone
    /\ UNCHANGED <<setupVars, infraVars, callerVars, orchVars, highlightVars, gate, noopCalls, started, queue, stopPc, stopLeft, starts, limiterVars, now,
                   serviceVars, invoked, order>>

HandlerReturns(w) == HandlerFinish(w, FALSE)

HandlerFails(w) == HandlerFinish(w, TRUE)

\* WorkerPool.wait_idle(): Queue.join() returns at once when nothing is unfinished
WaitIdleCall ==
    /\ waitPc \in {"none", "returned"}
    /\ waitPc' = IF unfinished > 0 THEN "waiting" ELSE "returned"
    /\ waitPc' # waitPc
    /\ UNCHANGED <<setupVars, infraVars, callerVars, orchVars, highlightVars, gate, noopCalls, poolVars, limiterVars, now, serviceVars, handlerVars>>

\* the woken join() resumes and wait_idle() returns
WaitIdleResume ==
    /\ waitPc = "woken"
    /\ waitPc' = "returned"
    /\ UNCHANGED <<setupVars, infraVars, callerVars, orchVars, highlightVars, gate, noopCalls, poolVars, limiterVars, now, serviceVars, handlerVars>>

\* gate.set(): the handlers waiting on the gate may go on
GateSet ==
    /\ ~gate
    /\ gate' = TRUE
    /\ UNCHANGED <<setupVars, infraVars, callerVars, orchVars, highlightVars, noopCalls, poolVars, waitPc, limiterVars, now, serviceVars,
                   handlerVars>>

\* _collect_audit_highlights(("install", path), ("sandbox", path)) is called on
\* files that hold `lines`, the first `split` of them in the install audit
CollectStart(lines, split) ==
    /\ line_no = 0
    /\ stage_lines' = [i \in DOMAIN lines |->
                          [stage |-> IF i <= split THEN "install" ELSE "sandbox",
                           record |-> lines[i]]]
    /\ line_no' = 1
    /\ highlights' = NoHighlights
    /\ UNCHANGED <<setupVars, infraVars, callerVars, orchVars, gate, noopCalls, poolVars, waitPc, limiterVars, now,
                   serviceVars, handlerVars>>

\* one turn of the loop `for raw_line in source`
CollectLine ==
    /\ line_no \in DOMAIN stage_lines
    /\ highlights' = CollectRecord(highlights, stage_lines[line_no].stage,
                                   stage_lines[line_no].record)
    /\ line_no' = line_no + 1
    /\ UNCHANGED <<setupVars, infraVars, callerVars, orchVars, stage_lines, gate, noopCalls, poolVars, waitPc, limiterVars,
                   now, serviceVars, handlerVars>>

\* everything but the orchestration
nonOrchVars ==
    <<setupVars, infraVars, callerVars, highlightVars, gate, noopCalls, poolVars, waitPc, limiterVars, now,
      serviceVars, handlerVars>>

\* TriageOrchestrator.execute(job) is called and awaits the installer
Execute(run_id, mode) ==
    /\ ex.pc = "idle"
    /\ ex' = [ex EXCEPT !.pc = "install", !.job = [run_id |-> run_id, mode |-> mode]]
    /\ UNCHANGED <<fs, sent, sandbox_calls, nonOrchVars>>

\* pip_installer.install returns. `reported`: the result carries no audit path
\* ("none"), the path of a file that is not there ("missing"), or the path of
\* the audit it wrote ("file", holding `audit`); `stderr`: what pip wrote
\* there (of a successful install only the length is read, so it is left
\* empty). Then _existing_path, the
\* install highlights and the two tests on install.ok and job.mode; the
\* sandbox executor is called when both let the run through.
InstallReturns(ok, reported, audit, stderr) ==
    /\ ex.pc = "install"
    /\ ok => stderr = <<>>
    /\ LET files == IF reported = "file" THEN WriteFile(fs, PipAuditPath, audit) ELSE fs
           path == IF reported = "none" THEN NoPath ELSE PipAuditPath
           found == _existing_path(files, path)
           next == AfterInstall(ok, ex.job.mode)
       IN  /\ fs' = files
           /\ ex' = [ex EXCEPT
                        !.pc = next,
                        !.install = [ok |-> ok, timed_out |-> FALSE,
                                     audit_jsonl_path |-> path, returned |-> TRUE,
                                     stdout |-> <<>>, stderr |-> stderr],
                        !.install_audit_path = found,
                        !.audits = [@ EXCEPT !.install = AuditLines(files, found)],
                        !.highlights = _collect_audit_highlights(
                                           StageLines("install", AuditLines(files, found)))]
           /\ sandbox_calls' = IF next = "sandbox" THEN sandbox_calls + 1 ELSE sandbox_calls
    /\ UNCHANGED <<sent, nonOrchVars>>

\* pip_installer.install raises (the process could not be spawned)
InstallRaises ==
    /\ ex.pc = "install"
    /\ ex' = [ex EXCEPT !.pc = "raised", !.raisedBy = "installer"]
    /\ UNCHANGED <<fs, sent, sandbox_calls, nonOrchVars>>

\* sandbox_executor.run(job) returns: its audit is reported at `path`
\* (/tmp/audit-<run_id>.jsonl for NsJailSandboxExecutor) and, if `written`,
\* is there with the lines `audit`. Then the run highlights over both stages.
SandboxReturns(ok, timed_out, path, written, audit, stdout, stderr) ==
    /\ ex.pc = "sandbox"
    /\ ~(ok /\ timed_out)
    /\ LET files == IF written THEN WriteFile(fs, path, audit) ELSE fs
           found == _existing_path(files, path)
       IN  /\ fs' = files
           /\ ex' = [ex EXCEPT
                        !.pc = "compress",
                        !.sandbox = [ok |-> ok, timed_out |-> timed_out,
                                     audit_jsonl_path |-> path, returned |-> TRUE,
                                     stdout |-> stdout, stderr |-> stderr],
                        !.sandbox_audit_path = found,
                        !.audits = [@ EXCEPT !.sandbox = AuditLines(files, found)],
                        !.highlights = _collect_audit_highlights(
                            StageLines("install", AuditLines(files, ex.install_audit_path))
                                \o StageLines("sandbox", AuditLines(files, found)))]
    /\ UNCHANGED <<sent, sandbox_calls, nonOrchVars>>

\* sandbox_executor.run(job) raises
SandboxRaises ==
    /\ ex.pc = "sandbox"
    /\ ex' = [ex EXCEPT !.pc = "raised", !.raisedBy = "sandbox"]
    /\ UNCHANGED <<fs, sent, sandbox_calls, nonOrchVars>>

\* _compress_audit_sources and the ExecutionSummary; an OSError of the merge
\* or of gzip_file leaves execute
CompressAuditSources(fail, created, flushed) ==
    /\ ex.pc = "compress"
    /\ LET sandbox_audit_path == IF ex.sandbox.returned
                                 THEN _existing_path(fs, ex.sandbox.audit_jsonl_path)
                                 ELSE NoPath
           \* None (no sandbox run) or _existing_path(sandbox.audit_jsonl_path)
           r == _compress_audit_sources(fs, ex.job.run_id, ex.install_audit_path,
                                        sandbox_audit_path, fail, created, flushed)
       IN  /\ fs' = r.fs
           /\ ex' = IF r.raised
                    THEN [ex EXCEPT !.pc = "raised", !.raisedBy = fail]
                    ELSE [ex EXCEPT
                            !.pc = "report",
                            !.telemetry_attachment_path = r.path,
                            !.summary = [run_id |-> ex.job.run_id,
                                         ok |-> IF ex.sandbox.returned THEN ex.sandbox.ok
                                                ELSE ex.install.ok,
                                         message |-> SummaryMessage(ex.install, ex.job.mode,
                                                                    ex.sandbox),
                                         attachment_path |-> r.path]]
    /\ UNCHANGED <<sent, sandbox_calls, nonOrchVars>>

\* _write_html_report; an error while building or writing it leaves execute
WriteHtmlReport(fail, created) ==
    /\ ex.pc = "report"
    /\ LET r == _write_html_report(fs, ex.job.run_id, ex.highlights, fail, created)
       IN  /\ fs' = r.fs
           /\ ex' = IF r.raised
                    THEN [ex EXCEPT !.pc = "raised", !.raisedBy = "html"]
                    ELSE [ex EXCEPT !.pc = "send", !.html_attachment_path = r.path]
    /\ UNCHANGED <<sent, sandbox_calls, nonOrchVars>>

\* `await self._webhook_client.send_summary(summary, attachment_paths)` inside
\* the try; the call sees the attachment files as they are now
SendSummary(post) ==
    /\ ex.pc = "send"
    /\ LET attachment_paths == _build_attachment_list(ex.telemetry_attachment_path,
                                                      ex.html_attachment_path)
       IN  sent' = Append(sent,
                      [run_id |-> ex.job.run_id,
                       ok |-> ex.summary.ok,
                       summary |-> ex.summary.message,
                       timed_out |-> ex.sandbox.timed_out,
                       attachment_paths |-> attachment_paths,
                       files |-> [i \in DOMAIN attachment_paths |->
                                    IF Exists(fs, attachment_paths[i])
                                    THEN fs[attachment_paths[i]] ELSE <<>>],
                       post |-> post])
    /\ ex' = [ex EXCEPT !.pc = "cleanup", !.send_raised = SendSummaryRaises(post)]
    /\ UNCHANGED <<fs, sandbox_calls, nonOrchVars>>

\* the finally: _cleanup_attachments; then `return summary`, or the exception
\* of send_summary goes on to the caller
CleanupAttachments ==
    /\ ex.pc = "cleanup"
    /\ fs' = _cleanup_attachments(fs, _build_attachment_list(ex.telemetry_attachment_path,
                                                             ex.html_attachment_path))
    /\ ex' = IF ex.send_raised
             THEN [ex EXCEPT !.pc = "raised", !.raisedBy = "webhook"]
             ELSE [ex EXCEPT !.pc = "returned"]
    /\ UNCHANGED <<sent, sandbox_calls, nonOrchVars>>

\* limiter.allow(key, now) called on its own, as the unit test does
AllowCall(key) ==
    LET res == RateLimiterAllow(rl_state, key, now)
    IN  /\ rl_state' = res.state
        /\ allowedAt' = RecordAllow(allowedAt, key, now, res)
        /\ UNCHANGED <<setupVars, infraVars, callerVars, orchVars, highlightVars, gate, noopCalls, poolVars, waitPc, now, serviceVars, handlerVars>>

\* limiter.allow(key, now=ts) on the limiter under test; the clock it is
\* given does not run backwards
TestAllow(key, ts) ==
    /\ Len(lim_calls) < MaxAllowCalls
    /\ lim_calls # <<>> => ts >= lim_calls[Len(lim_calls)].ts
    /\ LET res == FixedWindowRateLimiter_allow(lim, key, ts)
       IN  /\ lim' = [lim EXCEPT !.state = res.state]
           /\ lim_calls' = Append(lim_calls, [key |-> key, ts |-> ts, ok |-> res.ok,
                                              before |-> lim.state, after |-> res.state])
    /\ UNCHANGED <<setupVars, infraVars, http, wh, orchVars, highlightVars, gate, noopCalls, poolVars, waitPc,
                   limiterVars, now, serviceVars, handlerVars>>

\* POST /v1/triage with a schema-valid body, inside the lifespan: the bearer
\* check, then service.submit(package_name, version, client_ip=..., mode=...,
\* file_path=..., entrypoint=..., module_name=...) and the mapping of its result.
\* A call that does not bind raises TypeError and the server answers 500.
Triage(authorization, body, client_ip) ==
    /\ started
    /\ http.n < MaxRequests
    /\ LET payload == TriageRequest(body)
           request == [n |-> http.n + 1, authorization |-> authorization,
                       payload |-> payload, client_ip |-> client_ip]
           answered(response) ==
               http' = [n |-> request.n, authorization |-> authorization,
                        payload |-> payload, client_ip |-> client_ip,
                        response |-> response]
       IN  IF ~is_valid_bearer(authorization, api_token)
           THEN /\ answered([status |-> 401, detail |-> "invalid or missing token",
                             run_id |-> NoRunId])
                /\ UNCHANGED <<queue, unfinished, limiterVars, serviceVars>>
           ELSE IF ~CallBinds(TriageArguments, SubmitParameters)
           THEN /\ answered(InternalServerError)
                /\ UNCHANGED <<queue, unfinished, limiterVars, serviceVars>>
           ELSE LET r == ServiceSubmit(payload.package_name, client_ip)
                IN  /\ answered(TriageResponse(r))
                    /\ rl_state' = r.allow.state
                    /\ allowedAt' = IF r.limiterCalled
                                    THEN RecordAllow(allowedAt, client_ip, now, r.allow)
                                    ELSE allowedAt
                    /\ next_uuid' = IF r.minted THEN next_uuid + 1 ELSE next_uuid
                    /\ queue' = r.queue
                    /\ unfinished' = unfinished + (Len(r.queue) - Len(queue))
                    /\ last' = [package_name |-> payload.package_name,
                                client_ip |-> client_ip,
                                status |-> r.status, run_id |-> r.run_id]
                    /\ accepted' = IF r.status = "accepted"
                                   THEN accepted \cup {r.run_id} ELSE accepted
                    /\ nsub' = nsub + 1
    /\ UNCHANGED <<setupVars, infraVars, lim, lim_calls, wh, orchVars, highlightVars, gate, noopCalls, started,
                   workers, stopPc, stopLeft, starts, waitPc, now, handlerVars>>

\* send_summary(summary, attachment_paths) is called: its three locals are empty
SendSummaryCall(attachment_paths) ==
    /\ wh.pc = "idle"
    /\ wh' = [WhIdle EXCEPT !.pc = IF attachment_paths = <<>> THEN "post" ELSE "open",
                            !.attachment_paths = attachment_paths]
    /\ UNCHANGED <<setupVars, infraVars, lim, lim_calls, http, orchVars, highlightVars, gate, noopCalls,
                   poolVars, waitPc, limiterVars, now, serviceVars, handlerVars>>

\* one turn of `for path in attachment_paths`: a path that does not exist is
\* skipped; open(path, "rb") gives a handle, appended to opened_handles, or
\* raises OSError, which leaves send_summary from outside its try
OpenAttachment(exists, opens) ==
    /\ wh.pc = "open"
    /\ LET after == IF wh.index = Len(wh.attachment_paths) THEN "post" ELSE "open"
       IN  wh' = IF ~exists
                 THEN [wh EXCEPT !.index = @ + 1, !.pc = after]
                 ELSE IF ~opens
                 THEN [wh EXCEPT !.pc = "raised", !.raisedBy = "open"]
                 ELSE [wh EXCEPT !.index = @ + 1, !.pc = after,
                                 !.opened_handles = Append(@, wh.index),
                                 !.open = @ \cup {wh.index}]
    /\ UNCHANGED <<setupVars, infraVars, lim, lim_calls, http, orchVars, highlightVars, gate, noopCalls,
                   poolVars, waitPc, limiterVars, now, serviceVars, handlerVars>>

\* the try: client.post and raise_for_status; the finally closes every handle
\* of opened_handles; then the call returns or its exception goes on
WebhookPost(post) ==
    /\ wh.pc = "post"
    /\ wh' = [wh EXCEPT
                 !.pc = IF SendSummaryRaises(post) THEN "raised" ELSE "returned",
                 !.raisedBy = IF SendSummaryRaises(post) THEN post ELSE "none",
                 !.open = @ \ {wh.opened_handles[k] : k \in DOMAIN wh.opened_handles}]
    /\ UNCHANGED <<setupVars, infraVars, lim, lim_calls, http, orchVars, highlightVars, gate, noopCalls,
                   poolVars, waitPc, limiterVars, now, serviceVars, handlerVars>>

\* _parse_audit_record(raw_line) on a line of a single audit file
ParseLine(raw_line) ==
    /\ pa.pc = "idle"
    /\ pa' = [pa EXCEPT !.pc = "bare", !.line = raw_line,
                         !.bare = _parse_audit_record(raw_line)]
    /\ UNCHANGED <<setupVars, pr, concurrentVars, callerVars, orchVars, highlightVars, gate, noopCalls, poolVars,
                   waitPc, limiterVars, now, serviceVars, handlerVars>>

\* the same line after _merge_audit_logs wrote it as f"{stage}:{line}" is
\* parsed when the merged file is read
ParseMergedLine(stage) ==
    /\ pa.pc = "bare"
    /\ pa' = [pa EXCEPT !.pc = "merged", !.stage = stage,
                         !.merged = _parse_audit_record(MergedLine(stage, pa.line))]
    /\ UNCHANGED <<setupVars, pr, concurrentVars, callerVars, orchVars, highlightVars, gate, noopCalls, poolVars,
                   waitPc, limiterVars, now, serviceVars, handlerVars>>

\* run(command, timeout_sec): create_subprocess_exec, the two _read_capped
\* tasks, then wait_for(proc.wait(), timeout)
RunCall(code) ==
    /\ pr.pc \in {"idle", "returned", "raised"}
    /\ pr' = [PrIdle EXCEPT !.pc = "wait", !.child = "running", !.code = code]
    /\ UNCHANGED <<setupVars, pa, concurrentVars, callerVars, orchVars, highlightVars, gate, noopCalls, poolVars,
                   waitPc, limiterVars, now, serviceVars, handlerVars>>

\* the child ends, by itself or by the SIGKILL, and the loop collects its exit
ChildExits ==
    /\ pr.child = "running"
    /\ pr' = [pr EXCEPT !.child = "exited",
                         !.returncode = IF pr.signalled THEN <<SIGKILLED>> ELSE <<pr.code>>]
    /\ UNCHANGED <<setupVars, pa, concurrentVars, callerVars, orchVars, highlightVars, gate, noopCalls, poolVars,
                   waitPc, limiterVars, now, serviceVars, handlerVars>>

\* the write end of a pipe is closed (by the child, or with its end): the
\* reader's stream.read returns b"" and the _read_capped task ends
PipeEof(stream) ==
    /\ pr.child \in {"running", "exited"}
    /\ pr.pipes[stream] = "open"
    /\ pr' = [pr EXCEPT !.pipes[stream] = "eof"]
    /\ UNCHANGED <<setupVars, pa, concurrentVars, callerVars, orchVars, highlightVars, gate, noopCalls, poolVars,
                   waitPc, limiterVars, now, serviceVars, handlerVars>>

\* asyncio's transport, its exit collected and its pipes closed, calls
\* connection_lost and drops the Popen object
ConnectionLost ==
    /\ pr.child = "exited"
    /\ \A st \in Streams : pr.pipes[st] = "eof"
    /\ ~pr.proc_gone
    /\ pr' = [pr EXCEPT !.proc_gone = TRUE]
    /\ UNCHANGED <<setupVars, pa, concurrentVars, callerVars, orchVars, highlightVars, gate, noopCalls, poolVars,
                   waitPc, limiterVars, now, serviceVars, handlerVars>>

\* wait_for returns: the child exited within the timeout
WaitReturns ==
    /\ pr.pc = "wait"
    /\ pr.child = "exited"
    /\ pr' = [pr EXCEPT !.pc = "join"]
    /\ UNCHANGED <<setupVars, pa, concurrentVars, callerVars, orchVars, highlightVars, gate, noopCalls, poolVars,
                   waitPc, limiterVars, now, serviceVars, handlerVars>>

\* the timeout expires with the child still running: wait_for cancels
\* proc.wait() and, the cancellation done, will raise TimeoutError
TimeoutExpires ==
    /\ pr.pc = "wait"
    /\ pr.child = "running"
    /\ pr' = [pr EXCEPT !.pc = "cancelling", !.expired = TRUE]
    /\ UNCHANGED <<setupVars, pa, concurrentVars, callerVars, orchVars, highlightVars, gate, noopCalls, poolVars,
                   waitPc, limiterVars, now, serviceVars, handlerVars>>

\* except TimeoutError: timed_out = True; proc.kill(). kill() raises
\* ProcessLookupError when the transport has dropped the process, does
\* nothing when the exit is collected already, sends SIGKILL otherwise
Kill ==
    /\ pr.pc = "cancelling"
    /\ pr' = IF pr.proc_gone
              THEN [pr EXCEPT !.pc = "raised", !.timed_out = TRUE]
              ELSE [pr EXCEPT !.pc = "reap", !.timed_out = TRUE, !.kill_called = TRUE,
                              !.signalled = (pr.child = "running")]
    /\ UNCHANGED <<setupVars, pa, concurrentVars, callerVars, orchVars, highlightVars, gate, noopCalls, poolVars,
                   waitPc, limiterVars, now, serviceVars, handlerVars>>

\* await proc.wait() after the kill
Reaped ==
    /\ pr.pc = "reap"
    /\ pr.child = "exited"
    /\ pr' = [pr EXCEPT !.pc = "join", !.reaped = TRUE]
    /\ UNCHANGED <<setupVars, pa, concurrentVars, callerVars, orchVars, highlightVars, gate, noopCalls, poolVars,
                   waitPc, limiterVars, now, serviceVars, handlerVars>>

\* await stdout_task, then await stderr_task
JoinReader(stream) ==
    /\ pr.pc = "join"
    /\ pr.pipes[stream] = "eof"
    /\ stream \notin pr.joined
    /\ stream = "stderr" => "stdout" \in pr.joined
    /\ pr' = [pr EXCEPT !.joined = @ \cup {stream}]
    /\ UNCHANGED <<setupVars, pa, concurrentVars, callerVars, orchVars, highlightVars, gate, noopCalls, poolVars,
                   waitPc, limiterVars, now, serviceVars, handlerVars>>

\* the ProcessResult is built and returned
RunReturns ==
    /\ pr.pc = "join"
    /\ pr.joined = Streams
    /\ pr' = [pr EXCEPT !.pc = "returned",
                         !.result = ProcessResult(pr.timed_out, pr.returncode)]
    /\ UNCHANGED <<setupVars, pa, concurrentVars, callerVars, orchVars, highlightVars, gate, noopCalls, poolVars,
                   waitPc, limiterVars, now, serviceVars, handlerVars>>

\* worker j takes a job from the queue: execute(job) begins. The run_id is
\* the worker's own draw of uuid4, distinct from every other
JobExecute(j, package_name, version, mode) ==
    /\ cj[j].pc = "idle"
    /\ cj' = [cj EXCEPT ![j] = [CjIdle EXCEPT !.pc = "install", !.run_id = j,
                                              !.package_name = package_name,
                                              !.version = version, !.mode = mode]]
    /\ UNCHANGED <<site, tmp>>
    /\ UNCHANGED <<setupVars, pa, pr, callerVars, orchVars, highlightVars, gate, noopCalls,
                   poolVars, waitPc, limiterVars, now, serviceVars, handlerVars>>

\* RealPipInstaller.install up to its await: install_target =
\* site_packages_dir(...), rmtree of the target if it exists, then the pip
\* process is started
JobInstallBegins(j) ==
    /\ cj[j].pc = "install"
    /\ site' = Unlink(site, InstallTarget(j))
    /\ cj' = [cj EXCEPT ![j].pc = "installing"]
    /\ UNCHANGED tmp
    /\ UNCHANGED <<setupVars, pa, pr, callerVars, orchVars, highlightVars, gate, noopCalls,
                   poolVars, waitPc, limiterVars, now, serviceVars, handlerVars>>

\* the pip process ends: a successful one has filled --target; its audit is
\* at /tmp/pip-audit-<uuid>.jsonl. Then execute's _existing_path and its
\* tests on install.ok and job.mode
JobInstallEnds(j, ok) ==
    /\ cj[j].pc = "installing"
    /\ site' = IF ok THEN WriteFile(site, InstallTarget(j), [installed_by |-> cj[j].run_id])
               ELSE site
    /\ tmp' = WriteFile(tmp, PipAuditPathOf(cj[j].run_id), JobInstallAudit(cj[j].run_id))
    /\ cj' = [cj EXCEPT ![j].pc = AfterInstall(ok, cj[j].mode),
                        ![j].install_ok = ok,
                        ![j].install_audit_path =
                            _existing_path(tmp', PipAuditPathOf(cj[j].run_id))]
    /\ UNCHANGED <<setupVars, pa, pr, callerVars, orchVars, highlightVars, gate, noopCalls,
                   poolVars, waitPc, limiterVars, now, serviceVars, handlerVars>>

\* NsJailSandboxExecutor.run: the jailed interpreter, PYTHONPATH set to
\* site_packages_dir(job.package_name, job.version), imports the package
JobSandboxImports(j) ==
    /\ cj[j].pc = "sandbox"
    /\ cj' = [cj EXCEPT ![j].pc = "sandboxing",
                        ![j].imported = IF Exists(site, InstallTarget(j))
                                        THEN <<site[InstallTarget(j)].installed_by>>
                                        ELSE <<0>>]
    /\ UNCHANGED <<site, tmp>>
    /\ UNCHANGED <<setupVars, pa, pr, callerVars, orchVars, highlightVars, gate, noopCalls,
                   poolVars, waitPc, limiterVars, now, serviceVars, handlerVars>>

\* the sandbox process ends, its audit at /tmp/audit-<run_id>.jsonl
JobSandboxEnds(j) ==
    /\ cj[j].pc = "sandboxing"
    /\ tmp' = WriteFile(tmp, AuditPath(cj[j].run_id), JobSandboxAudit(cj[j].run_id))
    /\ cj' = [cj EXCEPT ![j].pc = "compress",
                        ![j].sandbox_audit_path = _existing_path(tmp', AuditPath(cj[j].run_id))]
    /\ UNCHANGED site
    /\ UNCHANGED <<setupVars, pa, pr, callerVars, orchVars, highlightVars, gate, noopCalls,
                   poolVars, waitPc, limiterVars, now, serviceVars, handlerVars>>

\* execute between two awaits: _compress_audit_sources, the highlights and
\* _write_html_report run without a break
JobCompressAndReport(j) ==
    /\ cj[j].pc = "compress"
    /\ LET lines == StageLines("install", AuditLines(tmp, cj[j].install_audit_path))
                        \o StageLines("sandbox", AuditLines(tmp, cj[j].sandbox_audit_path))
           z == _compress_audit_sources(tmp, cj[j].run_id, cj[j].install_audit_path,
                                        cj[j].sandbox_audit_path, "none", FALSE, 0)
           h == _write_html_report(z.fs, cj[j].run_id, _collect_audit_highlights(lines),
                                   FALSE, FALSE)
       IN  /\ tmp' = h.fs
           /\ cj' = [cj EXCEPT ![j].pc = "send",
                               ![j].telemetry_attachment_path = z.path,
                               ![j].html_attachment_path = h.path]
    /\ UNCHANGED site
    /\ UNCHANGED <<setupVars, pa, pr, callerVars, orchVars, highlightVars, gate, noopCalls,
                   poolVars, waitPc, limiterVars, now, serviceVars, handlerVars>>

\* await send_summary(summary, attachment_paths): the attachments are read
JobSendSummary(j) ==
    /\ cj[j].pc = "send"
    /\ LET attachment_paths == _build_attachment_list(cj[j].telemetry_attachment_path,
                                                      cj[j].html_attachment_path)
       IN  cj' = [cj EXCEPT ![j].pc = "cleanup",
                           ![j].sent = [i \in DOMAIN attachment_paths |->
                                           Exists(tmp, attachment_paths[i])]]
    /\ UNCHANGED <<site, tmp>>
    /\ UNCHANGED <<setupVars, pa, pr, callerVars, orchVars, highlightVars, gate, noopCalls,
                   poolVars, waitPc, limiterVars, now, serviceVars, handlerVars>>

\* the finally: _cleanup_attachments; execute returns
JobCleanup(j) ==
    /\ cj[j].pc = "cleanup"
    /\ tmp' = _cleanup_attachments(tmp, _build_attachment_list(cj[j].telemetry_attachment_path,
                                                              cj[j].html_attachment_path))
    /\ cj' = [cj EXCEPT ![j].pc = "done"]
    /\ UNCHANGED site
    /\ UNCHANGED <<setupVars, pa, pr, callerVars, orchVars, highlightVars, gate, noopCalls,
                   poolVars, waitPc, limiterVars, now, serviceVars, handlerVars>>

\* ---------------------------------------------------------------- specifications
\* sequences over S of length 0..n
SeqsUpTo(S, n) == UNION {[1..k -> S] : k \in 0..n}

\* the worker pool through its life: start, submissions, workers, wait_idle, stop
PoolNext ==
    \/ Start
    \/ Stop
    \/ StopPut
    \/ StopGather
    \/ \E ip \in ClientIps : Submit(PoolPackage, ip)
    \/ \E w \in SpawnedWorkers : WorkerTakeJob(w)
    \/ \E w \in SpawnedWorkers : WorkerTakeSentinel(w)
    \/ \E w \in SpawnedWorkers : HandlerReturns(w)
    \/ \E w \in SpawnedWorkers : HandlerFails(w)
    \/ WaitIdleCall
    \/ WaitIdleResume

PoolSpec == Init /\ [][PoolNext]_vars

\* the pool built with one worker or with MAX_CONCURRENCY workers
FifoInit ==
    /\ handlerKind \in {"callable", "WorkerHandler"}
    /\ settings \in [max_concurrency : {1, MAX_CONCURRENCY}, queue_limit : {QUEUE_LIMIT}]
    /\ Constructed

FifoSpec == FifoInit /\ [][PoolNext]_vars

\* the pool with submissions arriving also before start(), while stop() is
\* draining and after it
ShutdownNext ==
    \/ PoolNext
    \/ \E ip \in ClientIps : SubmitNotStarted(PoolPackage, ip)

ShutdownSpec == Init /\ [][ShutdownNext]_vars

\* the pool with the start() and stop() calls that find nothing to do made
\* visible (under PoolSpec they are stuttering steps)
LifecycleNext ==
    \/ PoolNext
    \/ StartAgain
    \/ StopAgain

LifecycleSpec == Init /\ [][LifecycleNext]_vars

\* admission on a running pool: every package name, every client, the clock
AdmissionNext ==
    \/ Tick
    \/ Start
    \/ \E p \in PackageNames, ip \in ClientIps : Submit(p, ip)
    \/ \E w \in SpawnedWorkers : WorkerTakeJob(w)
    \/ \E w \in SpawnedWorkers : HandlerReturns(w)

AdmissionInit == Init /\ handlerKind = "WorkerHandler"

AdmissionSpec == AdmissionInit /\ [][AdmissionNext]_vars

\* the HTTP route on a running pool, next to direct calls of the service
ApiNext ==
    \/ Start
    \/ \E authorization \in AuthHeaders, body \in RequestBodies, ip \in ClientIps :
          Triage(authorization, body, ip)
    \/ \E p \in {torch, PoolPackage}, ip \in ClientIps : Submit(p, ip)
    \/ \E w \in SpawnedWorkers : WorkerTakeJob(w)
    \/ \E w \in SpawnedWorkers : HandlerReturns(w)

ApiSpec == AdmissionInit /\ [][ApiNext]_vars

\* the bearer check of the route, on a service that direct submissions have
\* brought into every state of its limiter and queue
AuthNext ==
    \/ Start
    \/ \E authorization \in AuthHeaders, body \in RequestBodies, ip \in ClientIps :
          Triage(authorization, body, ip)
    \/ \E ip \in ClientIps : Submit(PoolPackage, ip)

AuthSpec == AdmissionInit /\ [][AuthNext]_vars

\* the audit parser on every line explored, bare and merged
ParseNext ==
    \/ \E raw_line \in AuditLineTexts : ParseLine(raw_line)
    \/ \E stage \in Stages : ParseMergedLine(stage)

ParseSpec == AdmissionInit /\ [][ParseNext]_vars

\* AsyncProcessRunner.run against a child that exits when it likes
RunnerNext ==
    \/ \E code \in ExitCodes : RunCall(code)
    \/ ChildExits
    \/ \E stream \in Streams : PipeEof(stream)
    \/ ConnectionLost
    \/ WaitReturns
    \/ TimeoutExpires
    \/ Kill
    \/ Reaped
    \/ \E stream \in Streams : JoinReader(stream)
    \/ RunReturns

RunnerSpec == AdmissionInit /\ [][RunnerNext]_vars

\* the workers' execute calls interleaved at their awaits
ConcurrentNext ==
    \/ \E j \in ConcurrentJobs, package_name \in JobPackages, version \in JobVersions,
          mode \in {"install", "execute"} : JobExecute(j, package_name, version, mode)
    \/ \E j \in ConcurrentJobs : JobInstallBegins(j)
    \/ \E j \in ConcurrentJobs, ok \in BOOLEAN : JobInstallEnds(j, ok)
    \/ \E j \in ConcurrentJobs : JobSandboxImports(j)
    \/ \E j \in ConcurrentJobs : JobSandboxEnds(j)
    \/ \E j \in ConcurrentJobs : JobCompressAndReport(j)
    \/ \E j \in ConcurrentJobs : JobSendSummary(j)
    \/ \E j \in ConcurrentJobs : JobCleanup(j)

ConcurrentSpec == AdmissionInit /\ [][ConcurrentNext]_vars

\* one send_summary call with every outcome of exists(), open() and the POST
WebhookNext ==
    \/ \E paths \in SeqsUpTo(AttachmentCandidates, MaxAttachments) : SendSummaryCall(paths)
    \/ \E exists, opens \in BOOLEAN : OpenAttachment(exists, opens)
    \/ \E post \in PostOutcomes : WebhookPost(post)

WebhookSpec == AdmissionInit /\ [][WebhookNext]_vars

\* the rate limiter alone: calls for every key while the clock advances
LimiterNext ==
    \/ Tick
    \/ \E key \in ClientIps : AllowCall(key)

LimiterSpec == AdmissionInit /\ [][LimiterNext]_vars

\* test_fixed_window_rate_limiter and every other short run of calls
LimiterTestNext == \E key \in ClientIps, ts \in Timestamps : TestAllow(key, ts)

LimiterTestSpec == AdmissionInit /\ [][LimiterTestNext]_vars

\* test_worker_pool_rejects_when_queue_is_full: one worker, one queue slot and
\* a handler that awaits a gate
GateInit ==
    /\ handlerKind = "gate"
    /\ settings = [max_concurrency |-> 1, queue_limit |-> 1]
    /\ Constructed

GateNext ==
    \/ Start
    \/ Stop
    \/ StopPut
    \/ StopGather
    \/ GateSet
    \/ \E ip \in ClientIps : Submit(PoolPackage, ip)
    \/ \E w \in SpawnedWorkers : WorkerTakeJob(w)
    \/ \E w \in SpawnedWorkers : WorkerTakeSentinel(w)
    \/ \E w \in SpawnedWorkers : HandlerReturns(w)

GateSpec == GateInit /\ [][GateNext]_vars

\* highlight extraction on its own, over every short stream of audit records
HighlightNext ==
    \/ /\ line_no = 0
       /\ \E lines \in SeqsUpTo(AuditRecords, MaxAuditLines) :
             \E split \in 0..Len(lines) : CollectStart(lines, split)
    \/ CollectLine

HighlightSpec == AdmissionInit /\ [][HighlightNext]_vars

\* one run of TriageOrchestrator.execute with every result the installer, the
\* sandbox executor, the file system and the webhook can give it
OrchestratorNext ==
    \/ \E run_id \in RunIds, mode \in RunModes : Execute(run_id, mode)
    \/ \E ok \in BOOLEAN, reported \in {"none", "missing", "file"}, audit \in InstallAudits :
          \E stderr \in Outputs : InstallReturns(ok, reported, audit, stderr)
    \/ InstallRaises
    \/ \E ok, timed_out, written \in BOOLEAN, audit \in SandboxAudits :
          \E path \in {AuditPath(ex.job.run_id), RunAuditPath}, stdout, stderr \in Outputs :
              SandboxReturns(ok, timed_out, path, written, audit, stdout, stderr)
    \/ SandboxRaises
    \/ \E fail \in {"none", "merge", "gzip"}, created \in BOOLEAN, flushed \in 0..1 :
          CompressAuditSources(fail, created, flushed)
    \/ \E fail, created \in BOOLEAN : WriteHtmlReport(fail, created)
    \/ \E post \in PostOutcomes : SendSummary(post)
    \/ CleanupAttachments

OrchestratorSpec == AdmissionInit /\ [][OrchestratorNext]_vars

\* asyncio runs every ready task, so a worker that can take an item takes it,
\* a resumed stop() or wait_idle() goes on, and every handler invocation ends
\* (by returning or by raising)
PoolFairness ==
    /\ WF_vars(StopPut)
    /\ WF_vars(StopGather)
    /\ WF_vars(WaitIdleResume)
    /\ \A w \in 1..MAX_CONCURRENCY :
          /\ WF_vars(WorkerTakeJob(w))
          /\ WF_vars(WorkerTakeSentinel(w))
          /\ WF_vars(HandlerReturns(w) \/ HandlerFails(w))

FairPoolSpec == PoolSpec /\ PoolFairness

Next ==
    \/ LifecycleNext
    \/ AdmissionNext
    \/ LimiterNext
    \/ LimiterTestNext
    \/ ShutdownNext
    \/ ApiNext
    \/ AuthNext
    \/ ParseNext
    \/ RunnerNext
    \/ ConcurrentNext
    \/ WebhookNext
    \/ GateNext
    \/ HighlightNext
    \/ OrchestratorNext

Spec == Init /\ [][Next]_vars

\* ---------------------------------------------------------------- claims
\* number of allowed calls of `key` with a timestamp in [lo, hi)
AllowedIn(key, lo, hi) ==
    Cardinality({i \in DOMAIN allowedAt[key] :
                    allowedAt[key][i].ts >= lo /\ allowedAt[key][i].ts < hi})

\* number of allowed calls of `key` that the limiter counted in the window
\* starting at ws
AllowedInWindow(key, ws) ==
    Cardinality({i \in DOMAIN allowedAt[key] : allowedAt[key][i].window_start = ws})

\* C5 as stated: for every key, at most per_ip_rate_limit allowed calls have
\* their timestamps in any interval [s, s + per_ip_rate_window_sec)
C5_AnyIntervalAtMostLimit ==
    \A key \in ClientIps : \A s \in 0..MaxTime :
        AllowedIn(key, s, s + per_ip_rate_window_sec) <= per_ip_rate_limit

\* C5 amended: for every key, at most per_ip_rate_limit allowed calls fall in
\* any one of the limiter's own windows [window_start, window_start + W), and
\* every allowed call lies inside the window it was counted in
C5_OwnWindowAtMostLimit ==
    \A key \in ClientIps : \A i \in DOMAIN allowedAt[key] :
        LET e == allowedAt[key][i]
        IN  /\ AllowedInWindow(key, e.window_start) <= per_ip_rate_limit
            /\ e.ts >= e.window_start
            /\ e.ts < e.window_start + per_ip_rate_window_sec

\* a key used up one window and was allowed again in a later one
C5_Witness ==
    \E key \in ClientIps : \E i, j \in DOMAIN allowedAt[key] :
        /\ AllowedInWindow(key, allowedAt[key][i].window_start) = per_ip_rate_limit
        /\ allowedAt[key][j].window_start > allowedAt[key][i].window_start

\* ---- admission (AdmissionSpec)
\* a step is a submit call: the call counter moved
SubmitStep == nsub' = nsub + 1

\* the limiter holds a window for ip that is still open and used up
LimiterRejects(ip) ==
    /\ ip \in DOMAIN rl_state
    /\ now - rl_state[ip].window_start < per_ip_rate_window_sec
    /\ rl_state[ip].count >= per_ip_rate_limit

QueueFull == Len(queue) >= queue_limit

\* C2: submit decides in the order denylist, rate limiter, queue and stops at
\* the first failure: denied_package if the name is denylisted, else
\* rate_limited if the limiter rejects, else overloaded if the queue is full,
\* else accepted; a denied call does not reach the limiter or the queue, a
\* rate-limited call does not reach the queue, and a run_id is minted only
\* when both the denylist and the limiter let the call pass
C2_AdmissionOrder ==
    [][SubmitStep =>
        LET p == last'.package_name
            ip == last'.client_ip
        IN  /\ last'.status =
                 IF DenylistVerdict[p] THEN "denied_package"
                 ELSE IF LimiterRejects(ip) THEN "rate_limited"
                 ELSE IF QueueFull THEN "overloaded"
                 ELSE "accepted"
            /\ (DenylistVerdict[p] => rl_state' = rl_state /\ queue' = queue)
            /\ (LimiterRejects(ip) => queue' = queue)
            /\ (next_uuid' # next_uuid <=> ~DenylistVerdict[p] /\ ~LimiterRejects(ip))
    ]_vars

\* a denylisted name was refused as denied_package although the caller's window
\* was used up and the queue was full
C2_Witness ==
    /\ last.status = "denied_package"
    /\ LimiterRejects(last.client_ip)
    /\ QueueFull

\* the normalized form as the claim words it: lower-cased, every run of
\* "-", "_" or "." replaced by one "-"
ClaimNormalized(p) == SubSeparators(Lower(p))

ClaimDenied ==
    [p \in PackageNames |->
        \E i \in DOMAIN package_denylist :
            \/ ClaimNormalized(p) = package_denylist[i]
            \/ StartsWith(ClaimNormalized(p), package_denylist[i] \o <<"-">>)]

\* C3: a name whose normalized form equals a denylist entry d or starts with
\* d followed by "-" is answered denied_package, no run_id is minted and no job
\* is enqueued; "torchserve" is not denied
C3_DenylistVariantsDenied ==
    [][SubmitStep =>
        /\ (ClaimDenied[last'.package_name] =>
              /\ last'.status = "denied_package"
              /\ last'.run_id = NoRunId
              /\ next_uuid' = next_uuid
              /\ queue' = queue
              /\ unfinished' = unfinished)
        /\ (last'.package_name = PoolPackage => last'.status # "denied_package")
    ]_vars

\* "Torch_CPU" was submitted and denied
C3_Witness ==
    /\ last.package_name = <<"T","o","r","c","h","_","C","P","U">>
    /\ last.status = "denied_package"
    /\ next_uuid = 1

\* C4: the SubmitResult carries a run_id exactly when its status is accepted,
\* and then it is the run_id of the job that was enqueued
C4_RunIdOnlyWhenAccepted ==
    last.status # "none" =>
        /\ (last.run_id # NoRunId <=> last.status = "accepted")
        /\ (last.status = "accepted" => last.run_id = next_uuid - 1)

\* an overloaded answer: a run_id was minted for the rejected job and not returned
C4_Witness ==
    /\ last.status = "overloaded"
    /\ last.run_id = NoRunId
    /\ next_uuid - 1 \notin accepted
    /\ next_uuid > 1

\* ---- worker pool (PoolSpec, FairPoolSpec)
Handling == {w \in DOMAIN workers : workers[w].state = "handling"}

QueuedIds == {queue[i].run_id : i \in DOMAIN queue} \ {NoRunId}

\* C6: WorkerPool.submit on a started pool does not wait: the call is possible
\* whatever the queue holds, it returns true and appends the job exactly when the
\* queue holds fewer than queue_limit items, and returns false leaving the queue
\* as it was when the queue is full
C6_SubmitNonBlocking ==
    /\ [](started /\ nsub < MaxSubmits => ENABLED (\E ip \in ClientIps : Submit(PoolPackage, ip)))
    /\ [][SubmitStep /\ last'.status \in {"accepted", "overloaded"} =>
            IF Len(queue) < queue_limit
            THEN /\ last'.status = "accepted"
                 /\ queue' = Append(queue, RunJob(next_uuid, last'.package_name))
            ELSE /\ last'.status = "overloaded"
                 /\ queue' = queue
       ]_vars

\* a submit was refused by a full queue, which it left full
C6_Witness ==
    /\ last.status = "overloaded"
    /\ Len(queue) = queue_limit
    /\ \A i \in DOMAIN queue : queue[i].run_id # next_uuid - 1

\* C8: at most max_concurrency handler invocations are in progress, and no job
\* is being handled by two workers
C8_ConcurrencyCap ==
    /\ Cardinality(Handling) <= max_concurrency
    /\ \A w1, w2 \in Handling : w1 # w2 => workers[w1].job.run_id # workers[w2].job.run_id
    /\ \A w \in Handling : workers[w].job # None /\ workers[w].job.run_id \notin QueuedIds
    /\ \A r \in RunIds : invoked[r] <= 1

\* every worker is inside a handler invocation
C8_Witness ==
    /\ Cardinality(Handling) = max_concurrency
    /\ queue # <<>>

\* C9 as stated: a handler invocation that raises does not end the worker, so
\* while the pool is started all max_concurrency workers are alive
C9_WorkerSurvivesHandlerError ==
    started =>
        /\ Cardinality({w \in DOMAIN workers : workers[w].state \in LiveStates}) = max_concurrency
        /\ \A w \in DOMAIN workers : workers[w].state # "raised"

\* C10 (safety part): with WorkerHandler as the pool's handler, every failure of
\* execute is logged with its run_id, the job is dropped (neither queued nor run
\* again), and no worker ends because of it
C10_Caught ==
    handlerKind = "WorkerHandler" =>
        /\ raisedIds \subseteq logged
        /\ \A r \in raisedIds : r \notin QueuedIds /\ invoked[r] = 1
        /\ \A w \in DOMAIN workers : workers[w].state # "raised"
        /\ (started => \A w \in DOMAIN workers : workers[w].state \in LiveStates)

\* C10: with WorkerHandler as the pool's handler a failure inside execute is
\* caught and logged with the run_id, the job is discarded, the handler returns
\* normally, and the jobs queued behind it are still processed
C10_WorkerHandlerCatches ==
    /\ []C10_Caught
    /\ \A r \in RunIds :
          (handlerKind = "WorkerHandler" /\ r \in accepted) ~> (invoked[r] = 1)

\* more runs failed, and were logged, than there are workers: some worker went
\* on to a further job after a failure
C10_Witness ==
    /\ handlerKind = "WorkerHandler"
    /\ Cardinality(raisedIds) > max_concurrency
    /\ raisedIds \subseteq logged

\* C1 as stated: every submission answered accepted has its run_id passed to
\* the handler eventually, and exactly once
C1_AcceptedHandledOnce ==
    /\ [](\A r \in RunIds : invoked[r] <= 1 /\ (invoked[r] = 1 => r \in accepted))
    /\ \A r \in RunIds : (r \in accepted) ~> (invoked[r] = 1)

\* no accepted job is still queued or inside the handler
NoJobPending == QueuedIds = {} /\ Handling = {}

\* C7 as stated: wait_idle() returns only in a state where no accepted job is
\* queued or inside the handler, and a wait_idle() that waits returns eventually
C7_WaitIdle ==
    /\ [][waitPc # "returned" /\ waitPc' = "returned" => NoJobPending']_vars
    /\ (waitPc = "waiting") ~> (waitPc = "returned")

\* the two halves of C7, each on its own
C7_ReturnsOnlyWhenIdle ==
    [][waitPc # "returned" /\ waitPc' = "returned" => NoJobPending']_vars

C7_EventuallyReturns == (waitPc = "waiting") ~> (waitPc = "returned")

\* ---- start/stop (LifecycleSpec)
\* C11: start() on a started pool and stop() on a pool that is not started
\* change nothing (no worker created, the worker list as it was, no sentinel
\* put, stop() not left waiting), and once stop() has returned on a stopped
\* pool the worker list is empty
C11_StartStopIdempotent ==
    /\ [][noopCalls' # noopCalls =>
            /\ workers' = workers
            /\ started' = started
            /\ queue' = queue
            /\ unfinished' = unfinished
            /\ stopPc' = "idle"]_vars
    /\ [][stopPc = "gather" /\ stopPc' = "idle" => workers' = <<>>]_vars
    /\ [](~started /\ stopPc = "idle" => workers = <<>>)

\* the unit test's run: start, start again, stop to its end, stop again
C11_Witness ==
    /\ noopCalls = {"start", "stop"}
    /\ starts = 1
    /\ ~started
    /\ stopPc = "idle"
    /\ workers = <<>>

\* ---- the gated handler (GateSpec)
GateHeld == handlerKind = "gate" /\ ~gate

AllHandling ==
    /\ started
    /\ \A w \in DOMAIN workers : workers[w].state = "handling"

\* C12: with max_concurrency = 1, queue_limit = 1 and the handler held at its
\* gate, a submission the limiter lets through is accepted when it is the first,
\* accepted (filling the queue) when the worker has taken the first, and
\* refused as overloaded, with no run_id and the queue untouched, when the
\* worker is busy and the queue is full
C12_GateAcceptAcceptReject ==
    /\ [][SubmitStep /\ GateHeld /\ ~LimiterRejects(last'.client_ip) =>
            /\ nsub = 0 => last'.status = "accepted"
            /\ AllHandling /\ queue = <<>> =>
                  /\ last'.status = "accepted"
                  /\ Len(queue') = queue_limit
            /\ AllHandling /\ Len(queue) = queue_limit =>
                  /\ last'.status = "overloaded"
                  /\ last'.run_id = NoRunId
                  /\ queue' = queue]_vars
    /\ [](GateHeld => Cardinality(accepted) <= max_concurrency + queue_limit)

\* three submissions: the worker holds job 1, job 2 is queued, the third was refused
C12_Witness ==
    /\ GateHeld
    /\ settings = [max_concurrency |-> 1, queue_limit |-> 1]
    /\ nsub = 3
    /\ accepted = {1, 2}
    /\ last.status = "overloaded"
    /\ workers[1].state = "handling"
    /\ workers[1].job.run_id = 1
    /\ Len(queue) = 1
    /\ Head(queue).run_id = 2

\* ---- highlights (HighlightSpec)
\* the entries the records read so far offer to the dict `name`, in stream order
RECURSIVE EntriesOf(_, _)
EntriesOf(name, lines) ==
    IF lines = <<>>
    THEN <<>>
    ELSE (IF Head(lines).record.set = name
          THEN [i \in DOMAIN Head(lines).record.items |->
                  HighlightEntry(Head(lines).stage, Head(lines).record.items[i])]
          ELSE <<>>) \o EntriesOf(name, Tail(lines))

LinesRead == SubSeq(stage_lines, 1, line_no - 1)

NoDuplicates(seq) == \A i, j \in DOMAIN seq : i # j => seq[i] # seq[j]

\* index of the first occurrence of x in seq
FirstIndex(seq, x) == CHOOSE i \in DOMAIN seq : seq[i] = x /\ \A j \in 1..(i - 1) : seq[j] # x

\* seq without the repetitions of an earlier element
RECURSIVE FirstOccurrences(_)
FirstOccurrences(seq) ==
    IF seq = <<>>
    THEN <<>>
    ELSE LET init == FirstOccurrences(SubSeq(seq, 1, Len(seq) - 1))
             x == seq[Len(seq)]
         IN  IF \E i \in DOMAIN init : init[i] = x THEN init ELSE Append(init, x)

\* C20 as stated: whatever the stream, each of the four highlight sets holds no
\* entry twice and lists its entries in the order of their first occurrence
C20_OrderOfFirstOccurrence ==
    line_no > 0 =>
        \A name \in HighlightSets :
            LET d == highlights.sets[name]
                offered == EntriesOf(name, LinesRead)
            IN  /\ NoDuplicates(d)
                /\ \A i, j \in DOMAIN d :
                      i < j => FirstIndex(offered, d[i]) < FirstIndex(offered, d[j])

\* C20 amended: each highlight set holds no entry twice, only entries the
\* stream offered and at most HIGHLIGHT_MAX_ITEMS of them; while the stream has
\* offered no more than HIGHLIGHT_MAX_ITEMS distinct entries the set is exactly
\* these entries in the order of their first occurrence
C20_DedupAndOrderWithinCap ==
    line_no > 0 =>
        \A name \in HighlightSets :
            LET d == highlights.sets[name]
                offered == EntriesOf(name, LinesRead)
            IN  /\ NoDuplicates(d)
                /\ Len(d) <= HIGHLIGHT_MAX_ITEMS
                /\ \A i \in DOMAIN d : \E k \in DOMAIN offered : offered[k] = d[i]
                /\ Len(FirstOccurrences(offered)) <= HIGHLIGHT_MAX_ITEMS
                      => d = FirstOccurrences(offered)

\* a finished collection over both stages in which an entry came twice and
\* the set kept two entries
C20_Witness ==
    /\ line_no = Len(stage_lines) + 1
    /\ \E a, b \in DOMAIN stage_lines :
          stage_lines[a].stage = "install" /\ stage_lines[b].stage = "sandbox"
    /\ \E name \in HighlightSets :
          /\ Len(highlights.sets[name]) = 2
          /\ ~NoDuplicates(EntriesOf(name, stage_lines))

\* the insertion of one key as section 4.7 words it
EvictOldestInsert(d, key) ==
    IF \E i \in DOMAIN d : d[i] = key
    THEN d
    ELSE IF Len(d) >= HIGHLIGHT_MAX_ITEMS THEN Append(Tail(d), key) ELSE Append(d, key)

RECURSIVE EvictOldestInsertAll(_, _)
EvictOldestInsertAll(d, keys) ==
    IF keys = <<>> THEN d ELSE EvictOldestInsertAll(EvictOldestInsert(d, Head(keys)), Tail(keys))

\* C31: each highlight set never holds more than HIGHLIGHT_MAX_ITEMS entries;
\* every line read inserts its keys one by one, a key new to a full set
\* evicting the oldest entry and going to the end, a key already present
\* changing neither the order nor the size of the set
C31_CappedInsertion ==
    [][line_no' = line_no + 1 /\ line_no \in DOMAIN stage_lines =>
          \A name \in HighlightSets :
              LET before == highlights.sets[name]
                  after == highlights'.sets[name]
                  keys == EntriesOf(name, <<stage_lines[line_no]>>)
              IN  /\ Len(after) <= HIGHLIGHT_MAX_ITEMS
                  /\ after = EvictOldestInsertAll(before, keys)
                  /\ (\A k \in DOMAIN keys : \E i \in DOMAIN before : before[i] = keys[k])
                        => after = before]_vars

\* a full set that has evicted an entry and has been offered a key it held
C31_Witness ==
    /\ line_no > 1
    /\ \E name \in HighlightSets :
          /\ Len(highlights.sets[name]) = HIGHLIGHT_MAX_ITEMS
          /\ Len(FirstOccurrences(EntriesOf(name, LinesRead))) > HIGHLIGHT_MAX_ITEMS
          /\ \E n \in 2..(line_no - 1) :
                LET keys == EntriesOf(name, <<stage_lines[n]>>)
                    seen == EntriesOf(name, SubSeq(stage_lines, 1, n - 1))
                IN  /\ keys # <<>>
                    /\ \A k \in DOMAIN keys : \E i \in DOMAIN seen : seen[i] = keys[k]

\* C32: the stage prefix the merge puts before a line is undone by the
\* parser: for every audit line L, with or without whitespace around it, JSON
\* object or not, and every stage s, _parse_audit_record(s + ":" + L) equals
\* _parse_audit_record(L)
C32_PrefixIsInverse == pa.pc = "merged" => pa.merged = pa.bare

\* C32 for the lines that begin with their JSON object
C32_PrefixIsInverseNoLeadingText ==
    pa.pc = "merged" /\ StartsWith(pa.line, <<"{">>) => pa.merged = pa.bare

\* what C33 says of a run that has returned: timed_out=true with returncode
\* 124 exactly when the timeout expired before the child exited, the child
\* then killed and its exit awaited; otherwise timed_out=false with the
\* child's own exit code; both readers joined in either case
RunResultAsClaimed ==
    pr.pc = "returned" =>
        /\ pr.result.timed_out <=> pr.expired
        /\ pr.expired => /\ pr.result.returncode = TIMEOUT_RETURNCODE
                          /\ pr.kill_called
                          /\ pr.reaped
                          /\ pr.child = "exited"
        /\ ~pr.expired => pr.result.returncode = pr.code
        /\ pr.joined = Streams
        /\ \A st \in Streams : pr.pipes[st] = "eof"

\* C33: every run ends with one of the two reports, the timeout report
\* (timed_out=true, returncode=124, child killed and awaited) exactly when the
\* timeout expired before the child exited, and the child's real exit code
\* otherwise, the two output readers joined before run returns
C33_TimeoutOrExitCode ==
    /\ RunResultAsClaimed
    /\ pr.pc # "raised"

\* C34: the install target is scoped to the run: two jobs in flight at the
\* same time never share an install target directory, and what a job's
\* sandbox imports is the package its own install put there
C34_InstallTargetPerRun ==
    /\ \A j, k \in ConcurrentJobs :
          j # k /\ InFlight(j) /\ InFlight(k) => InstallTarget(j) # InstallTarget(k)
    /\ \A j \in ConcurrentJobs :
          cj[j].imported # NotImported => cj[j].imported = <<cj[j].run_id>>

\* the second half of C34 alone: no sandbox runs on a package another job's
\* install removed or put in place
C34_SandboxImportsOwnInstall ==
    \A j \in ConcurrentJobs :
        cj[j].imported # NotImported => cj[j].imported = <<cj[j].run_id>>

\* the paths derived from worker j's run_id or from its install audit path
OwnPath(j, path) ==
    \/ path.stem \in {"audit", "audit-report"} /\ path.id = cj[j].run_id
    \/ /\ cj[j].install_audit_path # NoPath
       /\ path.stem = cj[j].install_audit_path.stem
       /\ path.id = cj[j].install_audit_path.id

\* the files of /tmp a step creates, rewrites or deletes
Touched ==
    {path \in DOMAIN tmp \cup DOMAIN tmp' :
        \/ path \notin DOMAIN tmp
        \/ path \notin DOMAIN tmp'
        \/ tmp[path] # tmp'[path]}

\* C40: with distinct run_ids, every path a job's merge, gzip, report write
\* or cleanup creates or deletes is derived from its own run_id or its own
\* install audit path, and no cleanup deletes a file another job in flight
\* still needs: each job's send_summary finds all its attachments in place
C40_OwnTemporaryFilesOnly ==
    [][\A j \in ConcurrentJobs :
          cj'[j] # cj[j] =>
              /\ cj[j].pc \in {"compress", "cleanup"} =>
                    \A path \in Touched : OwnPath(j, path)
              /\ \A k \in ConcurrentJobs \ {j} :
                    \A path \in Touched : ~OwnPath(k, path) /\ path.id # cj[k].run_id
              /\ cj'[j].pc = "cleanup" =>
                    \A i \in DOMAIN cj'[j].sent : cj'[j].sent[i]]_vars

\* one job has cleaned up and returned while the other, merged audit and
\* report written, is about to send them
C40_Witness ==
    \E j, k \in ConcurrentJobs :
        /\ cj[j].pc = "done"
        /\ cj[j].telemetry_attachment_path # NoPath
        /\ cj[j].sandbox_audit_path # NoPath
        /\ cj[k].pc = "send"
        /\ cj[k].sandbox_audit_path # NoPath
        /\ cj[k].install_audit_path # NoPath
        /\ cj[k].html_attachment_path # NoPath
        /\ Exists(tmp, cj[k].telemetry_attachment_path)
        /\ Exists(tmp, cj[k].html_attachment_path)

\* ---- orchestration (OrchestratorSpec)
Finished == ex.pc \in {"returned", "raised"}

\* the installer returned and, where the run goes on to the sandbox, the
\* sandbox executor returned too: one of the three outcomes (install failed,
\* install-only ok, executed) is taken
OutcomeTaken ==
    /\ ex.install.returned
    /\ AfterInstall(ex.install.ok, ex.job.mode) = "sandbox" => ex.sandbox.returned

\* C13: the sandbox executor is called at most once, only after the installer
\* returned ok=true for a job whose mode is not install, and it is called in
\* every such run; after a failed install and in install-only mode it is never
\* called
C13_SandboxIffInstalledAndNotInstallMode ==
    /\ sandbox_calls <= 1
    /\ sandbox_calls = 1 <=>
          ex.install.returned /\ ex.install.ok /\ ex.job.mode # "install"
    /\ ex.sandbox.returned => sandbox_calls = 1

\* an executed run and an install-only run are told apart: this run went
\* through the sandbox and returned
C13_Witness ==
    /\ ex.pc = "returned"
    /\ ex.job.mode = "execute_module"
    /\ sandbox_calls = 1
    /\ ex.sandbox.returned

\* C14: in every run of execute that takes one of the three outcomes,
\* send_summary is called exactly once when the run is over, and never with
\* another run_id than the job's
C14_WebhookExactlyOnce ==
    /\ Len(sent) <= 1
    /\ \A i \in DOMAIN sent : sent[i].run_id = ex.job.run_id
    /\ Finished /\ OutcomeTaken => Len(sent) = 1

\* C15: when execute has returned, nothing it or its collaborators wrote under
\* /tmp is left: no raw install or sandbox audit, no merged JSONL, no .gz
\* attachment and no HTML report, whichever audit files there were
C15_NoFilesAfterReturn ==
    ex.pc = "returned" => DOMAIN fs = {}

\* a run that found both audits, attached the .gz and the report, and returned
C15_Witness ==
    /\ ex.pc = "returned"
    /\ ex.install_audit_path # NoPath
    /\ ex.sandbox_audit_path # NoPath
    /\ Len(sent) = 1
    /\ ex.audits.install # <<>>
    /\ ex.audits.sandbox # <<>>
    /\ Len(sent[1].attachment_paths) = 2
    /\ \A i \in 1..2 : sent[1].files[i] # <<>>

\* C16: on every way out of execute, return or exception, no temporary file
\* of the job is left
C16_NoFilesOnAnyExit ==
    Finished => DOMAIN fs = {}

\* C17: a failed POST does not leave send_summary or execute as an exception:
\* the run still returns its summary
C17_WebhookFailureSwallowed ==
    /\ ~ex.send_raised
    /\ Finished /\ Len(sent) = 1 =>
          ex.pc = "returned" /\ ex.summary.run_id = ex.job.run_id

\* C18: a failing merge, gzip or report write does not end the run: execute
\* goes on without the artifact and the summary is still sent
C18_DegradesGracefully ==
    /\ ex.raisedBy \notin {"merge", "gzip", "html"}
    /\ Finished /\ OutcomeTaken /\ ex.raisedBy # "webhook" =>
          Len(sent) = 1 /\ ex.pc = "returned"

\* C19: when both audits were found, the attachment handed to the webhook is
\* the gzip of the install lines, each prefixed install:, followed by the
\* sandbox lines, each prefixed sandbox:, and both raw files are gone after
\* the compression
C19_MergedAttachmentComplete ==
    ex.install_audit_path # NoPath /\ ex.sandbox_audit_path # NoPath =>
        /\ ex.pc \in {"report", "send", "cleanup", "returned"} =>
              /\ ~Exists(fs, ex.install_audit_path)
              /\ ~Exists(fs, ex.sandbox_audit_path)
        /\ \A i \in DOMAIN sent :
              sent[i].files[1] =
                  [gzip |-> PrefixLines("install", ex.audits.install)
                                \o PrefixLines("sandbox", ex.audits.sandbox)]

\* the allow() calls made for `key` on the limiter under test, in call order
CallsOf(key) == SelectSeq(lim_calls, LAMBDA c : c.key = key)

\* the calls of test_fixed_window_rate_limiter
TestCallTimes == <<TEST_T0, TEST_T0 + 1, TEST_T0 + 2, TEST_T0 + TEST_WINDOW_SEC + 1>>

TestRun(key) ==
    /\ lim.limit = TEST_LIMIT
    /\ lim.window_sec = TEST_WINDOW_SEC
    /\ [i \in DOMAIN CallsOf(key) |-> CallsOf(key)[i].ts] = TestCallTimes

\* C24: every allow(key, t) follows the fixed-window step: no state for the key
\* or t - window_start >= W: the state becomes (t, 1) and the call is allowed;
\* else count >= L: rejected, state untouched; else count + 1 and allowed. With
\* L=2, W=10 the calls at 100, 101, 102, 111 answer true, true, false, true.
C24_FixedWindowStep ==
    /\ \A i \in DOMAIN lim_calls :
          LET c == lim_calls[i]
              fresh == c.key \notin DOMAIN c.before
              expired == ~fresh /\ c.ts - c.before[c.key].window_start >= lim.window_sec
              full == ~fresh /\ c.before[c.key].count >= lim.limit
          IN  IF fresh \/ expired
              THEN /\ c.ok
                   /\ c.after = SetKey(c.before, c.key, [window_start |-> c.ts, count |-> 1])
              ELSE IF full
              THEN /\ ~c.ok
                   /\ c.after = c.before
              ELSE /\ c.ok
                   /\ c.after = SetKey(c.before, c.key,
                                       [window_start |-> c.before[c.key].window_start,
                                        count |-> c.before[c.key].count + 1])
    /\ \A key \in ClientIps :
          TestRun(key) =>
              [i \in DOMAIN CallsOf(key) |-> CallsOf(key)[i].ok] = <<TRUE, TRUE, FALSE, TRUE>>

\* the four calls of the test have been made, one of them rejected
C24_Witness ==
    \E key \in ClientIps :
        /\ TestRun(key)
        /\ \E i \in DOMAIN lim_calls : ~lim_calls[i].ok

\* C39: allow(k1, t) never alters the window start or count of another key,
\* a call that returns false leaves the whole state as it was, and (the limit
\* being at least 1) every stored count is between 1 and the limit
C39_AllowTouchesOwnKeyOnly ==
    /\ \A i \in DOMAIN lim_calls :
          LET c == lim_calls[i]
          IN  /\ \A k2 \in ClientIps \ {c.key} :
                    /\ k2 \in DOMAIN c.after <=> k2 \in DOMAIN c.before
                    /\ k2 \in DOMAIN c.before => c.after[k2] = c.before[k2]
              /\ ~c.ok => c.after = c.before
              /\ c.key \in DOMAIN c.after
    /\ lim.limit >= 1 =>
          \A k \in DOMAIN lim.state :
              lim.state[k].count >= 1 /\ lim.state[k].count <= lim.limit

\* a call was rejected on a limiter that also holds the window of another key
C39_Witness ==
    \E i \in DOMAIN lim_calls :
        /\ ~lim_calls[i].ok
        /\ lim_calls[i].before[lim_calls[i].key].count = lim.limit
        /\ \E k2 \in DOMAIN lim_calls[i].before : k2 # lim_calls[i].key

\* the calls the limiter has counted for ip in the window open at time t
QuotaUsed(state, ip, t) ==
    IF ip \in DOMAIN state /\ t - state[ip].window_start < per_ip_rate_window_sec
    THEN state[ip].count
    ELSE 0

\* C36: quota is consumed by exactly the submissions that end accepted or
\* overloaded, one unit of the caller's own window each; a denied_package
\* submission leaves the rate-limit map and the queue as they were, and a
\* rate_limited one leaves the queue (and the map) as it was
C36_QuotaConsumedIffPastLimiter ==
    [][SubmitStep =>
        LET ip == last'.client_ip
            status == last'.status
        IN  /\ status \in {"accepted", "overloaded"} =>
                  /\ QuotaUsed(rl_state', ip, now) = QuotaUsed(rl_state, ip, now) + 1
                  /\ \A k \in ClientIps \ {ip} :
                        QuotaUsed(rl_state', k, now) = QuotaUsed(rl_state, k, now)
            /\ status = "overloaded" => queue' = queue
            /\ status = "denied_package" => rl_state' = rl_state /\ queue' = queue
            /\ status = "rate_limited" => rl_state' = rl_state /\ queue' = queue
            /\ status \in {"accepted", "overloaded", "denied_package", "rate_limited"}
    ]_vars

\* a submission turned away by the full queue has used up quota of its caller
C36_Witness ==
    /\ last.status = "overloaded"
    /\ QuotaUsed(rl_state, last.client_ip, now) >= 1
    /\ Cardinality(accepted) = queue_limit

\* the run_ids of the jobs waiting in the queue, head first
WaitingIds == [i \in DOMAIN SelectSeq(queue, LAMBDA item : item # None) |->
                  SelectSeq(queue, LAMBDA item : item # None)[i].run_id]

StrictlyIncreasing(seq) == \A i, j \in DOMAIN seq : i < j => seq[i] < seq[j]

\* C27: jobs leave the queue in the order submit accepted them (run_ids are
\* minted in call order, so the smaller run_id was accepted first): the queue
\* holds them in that order, no handler invocation has begun for a job accepted
\* later than one still waiting, and the invocations begin in submission order,
\* with a single worker one after the other.
C27_FifoOrder ==
    /\ StrictlyIncreasing(WaitingIds)
    /\ \A i \in DOMAIN order, j \in DOMAIN WaitingIds : order[i] < WaitingIds[j]
    /\ StrictlyIncreasing(order)
    /\ max_concurrency = 1 =>
          Cardinality({w \in DOMAIN workers : workers[w].state = "handling"}) <= 1

\* a single worker has begun three invocations while a later job was waiting
C27_Witness ==
    /\ max_concurrency = 1
    /\ Len(order) = MaxSubmits - 1
    /\ Len(WaitingIds) = 1

\* a SubmissionService.submit call made on a pool that is not started
SubmitOnStoppedPool == ~started /\ nsub' = nsub + 1

\* C26: submit on a pool that is not started (never started, stop() begun or
\* draining, stopped) enqueues nothing and accepts nothing; the call that gets
\* as far as WorkerPool.submit ends in RuntimeError.
C26_SubmitRequiresStarted ==
    [][SubmitOnStoppedPool =>
          /\ queue' = queue
          /\ unfinished' = unfinished
          /\ accepted' = accepted
          /\ last'.run_id = NoRunId
          /\ last'.status = IF RateLimiterAllow(rl_state, last'.client_ip, now).ok
                            THEN "RuntimeError" ELSE "rate_limited"]_vars

\* submit raised while stop() was waiting for a worker still in its handler
C26_Witness ==
    /\ last.status = "RuntimeError"
    /\ stopPc = "gather"
    /\ \E w \in DOMAIN workers : workers[w].state = "handling"

\* stop() has returned
StopReturned == starts > 0 /\ ~started /\ stopPc = "idle"

\* the sentinels waiting in the queue
Sentinels == Len(SelectSeq(queue, LAMBDA item : item = None))

\* C25: stop() puts one sentinel per worker, behind the jobs already queued,
\* and returns only when every worker task has ended; every job accepted before
\* stop() was called has then been passed to the handler; a worker that takes
\* a sentinel ends without a handler invocation.
C25_StopDrains ==
    /\ stopPc # "idle" =>
          stopLeft + Sentinels
              + Cardinality({w \in DOMAIN workers : workers[w].state = "returned"})
            = Cardinality(DOMAIN workers)
    /\ \A i, j \in DOMAIN queue : queue[i] = None /\ i < j => queue[j] = None
    /\ \A w \in DOMAIN workers : workers[w].state = "returned" => workers[w].job = None
    /\ StopReturned =>
          /\ workers = <<>>
          /\ \A r \in accepted : invoked[r] >= 1

\* the jobs accepted and not yet finished: queued or inside a handler
InFlightJobs ==
    {r \in accepted : r \in QueuedIds \/ \E w \in Handling : workers[w].job.run_id = r}

\* C38: in every reachable state of the WorkerPool the queue holds at most
\* queue_limit items, jobs and sentinels together, and the jobs accepted but
\* not yet finished number at most queue_limit + max_concurrency
C38_QueueAndInFlightBounded ==
    /\ Len(queue) <= queue_limit
    /\ Cardinality(InFlightJobs) <= queue_limit + max_concurrency
    /\ unfinished = Cardinality(InFlightJobs) + Sentinels

\* the second bound is reached: a full queue behind workers that are all busy
C38_Witness ==
    /\ Cardinality(InFlightJobs) = queue_limit + max_concurrency
    /\ Len(queue) = queue_limit

\* C37: every handler invocation terminating (the fairness of FairPoolSpec),
\* a stop() that has begun eventually returns: it does not wait forever on
\* the put of a sentinel into the bounded queue nor on the gather
C37_StopReturns == (stopPc # "idle") ~> (stopPc = "idle")

\* C37 with a handler that lets no exception out
C37_StopReturnsUnlessHandlerRaises ==
    (stopPc # "idle" /\ handlerKind = "WorkerHandler") ~> (stopPc = "idle")

\* a POST /v1/triage has been answered
Answered == http'.n = http.n + 1

\* the (status, detail) the claim gives for a SubmitResult status
ClaimedResponse(status) ==
    CASE status = "denied_package" -> <<429, "package is denied">>
      [] status = "rate_limited" -> <<429, "rate limit exceeded">>
      [] status = "overloaded" -> <<503, "queue full">>
      [] status = "accepted" -> <<202, "accepted">>
      [] OTHER -> <<0, "">>

\* C22: a request without the right bearer token is answered 401 and no
\* admission step is taken; any other schema-valid request is answered by the
\* outcome of its submission: denied 429 'package is denied', rate limited 429
\* 'rate limit exceeded', overloaded 503 'queue full', accepted 202 with the
\* job's run_id; no other status is produced.
C22_ResponseMapping ==
    [][Answered =>
          IF http'.authorization # BearerSecret
          THEN /\ http'.response.status = 401
               /\ UNCHANGED <<queue, limiterVars, serviceVars>>
          ELSE /\ nsub' = nsub + 1
               /\ <<http'.response.status, http'.response.detail>>
                      = ClaimedResponse(last'.status)
               /\ http'.response.run_id = last'.run_id
               /\ http'.response.status \in {202, 429, 503}]_vars

\* C35: a request whose Authorization header is missing, malformed or carries
\* a wrong token is answered 401, and a request answered 401 changes no
\* service state: the rate-limit map, the queue and the run_id counter are as
\* before, so it consumes no rate-limit quota and no queue slot
C35_UnauthorizedChangesNothing ==
    [][Answered =>
          /\ http'.authorization # BearerSecret => http'.response.status = 401
          /\ http'.response.status = 401 =>
                /\ http'.authorization # BearerSecret
                /\ http'.response.run_id = NoRunId
                /\ UNCHANGED <<queue, unfinished, rl_state, allowedAt, next_uuid, nsub,
                               last, accepted>>]_vars

\* a request was answered 401 by a service whose limiter and queue hold state
C35_Witness ==
    /\ http.n > 0
    /\ http.response.status = 401
    /\ http.authorization # NoHeader
    /\ queue # <<>>
    /\ http.client_ip \in DOMAIN rl_state

\* the RunJob the claim expects for a request
RequestedJob(run_id, payload) ==
    [run_id |-> run_id, package_name |-> payload.package_name, mode |-> payload.mode,
     file_path |-> payload.file_path, entrypoint |-> payload.entrypoint,
     module_name |-> payload.module_name]

\* the denylist, the limiter and the queue let a request of `ip` for `p` in
AdmissionPasses(p, ip) ==
    /\ ~DenylistVerdict[p]
    /\ RateLimiterAllow(rl_state, ip, now).ok
    /\ Len(queue) < queue_limit

\* C23: a request that passes the bearer check and admission enqueues a RunJob
\* carrying exactly its package_name, mode, file_path, entrypoint and
\* module_name (mode install when the request gives none); a submission made
\* with package_name, version and client_ip alone enqueues a job of mode
\* install without targets.
C23_JobCarriesRequest ==
    [][/\ (Answered /\ http'.authorization = BearerSecret
              /\ AdmissionPasses(http'.payload.package_name, http'.client_ip)) =>
            queue' = Append(queue, RequestedJob(next_uuid, http'.payload))
       /\ (~Answered /\ nsub' = nsub + 1 /\ last'.status = "accepted") =>
            queue' = Append(queue,
                            [run_id |-> last'.run_id, package_name |-> last'.package_name,
                             mode |-> "install", file_path |-> NoTarget,
                             entrypoint |-> NoTarget, module_name |-> NoTarget])]_vars

\* send_summary has returned or raised
SendSummaryLeft == wh.pc \in {"returned", "raised"}

\* C21: after send_summary returns or raises (POST failure, HTTP error status,
\* failure to open a later attachment) none of the handles it opened is open.
C21_HandlesClosed == SendSummaryLeft => wh.open = {}

\* _compress_audit_sources has returned in this run
Compressed == ex.pc \in {"report", "send", "cleanup", "returned"}

\* the audit files found on disk when the run looked for them
InstallAuditExists == ex.install_audit_path # NoPath
SandboxAuditExists == ex.sandbox_audit_path # NoPath

\* C28: the telemetry attachment follows the audit files found on disk: both:
\* the merged /tmp/audit-<run_id>.jsonl.gz; one: the gzip of that file; none
\* (no path reported, or the reported file missing): no telemetry attachment,
\* and with no highlight either send_summary gets the empty tuple. The
\* summary's attachment_path is that .gz path and is among the paths sent.
C28_TelemetryAttachmentChoice ==
    Compressed =>
        /\ ex.summary.attachment_path = ex.telemetry_attachment_path
        /\ ex.telemetry_attachment_path =
              IF InstallAuditExists /\ SandboxAuditExists THEN GzPath(AuditPath(ex.job.run_id))
              ELSE IF InstallAuditExists THEN GzPath(ex.install_audit_path)
              ELSE IF SandboxAuditExists THEN GzPath(ex.sandbox_audit_path)
              ELSE NoPath
        /\ \A i \in DOMAIN sent :
              IF InstallAuditExists \/ SandboxAuditExists
              THEN /\ sent[i].attachment_paths # <<>>
                   /\ sent[i].attachment_paths[1] = ex.summary.attachment_path
                   /\ InstallAuditExists /\ ~SandboxAuditExists =>
                         sent[i].files[1] = [gzip |-> ex.audits.install]
                   /\ SandboxAuditExists /\ ~InstallAuditExists =>
                         sent[i].files[1] = [gzip |-> ex.audits.sandbox]
              ELSE /\ \A k \in DOMAIN sent[i].attachment_paths :
                         sent[i].attachment_paths[k].suffix # <<".jsonl", ".gz">>
                   /\ ~HasData(ex.highlights) => sent[i].attachment_paths = <<>>

\* the installer reported an audit file that is not there, the sandbox audit
\* is: its gzip alone was sent as the telemetry attachment
C28_Witness ==
    /\ ex.pc = "returned"
    /\ ex.install.audit_jsonl_path # NoPath
    /\ ~InstallAuditExists
    /\ SandboxAuditExists
    /\ ex.audits.sandbox # <<>>
    /\ Len(sent) = 1
    /\ sent[1].attachment_paths[1] = GzPath(ex.sandbox_audit_path)

====
